---- MODULE Spec2Model ----
(***************************************************************************)
(* Registry gateway of smartcat999/container-ui: the local V2 registry     *)
(* engine over its two content stores, the proxy-handler registry over the *)
(* config store, and the per-ClientHello certificate selection.            *)
(*                                                                         *)
(* Byte strings are sequences over Byte.  Repository names are kept as the *)
(* sequence of their slash-separated segments.  A digest string            *)
(* "sha256:<hex>" is the record [sha256 |-> n]; a tag is a string.         *)
(***************************************************************************)
EXTENDS Integers, Sequences, FiniteSets, TLC

VARIABLES
    stores,      \* [variant -> state of that content store]
    lastReq,     \* the V2 request served last
    resp,        \* [variant -> response of the handler over that store]
    patchLog,    \* history: [variant -> [<<repo, uploadID>> -> chunks accepted since the session was initiated]]
    putLog,      \* history: [variant -> {<<repo, body>>: manifest PUT answered 201, not deleted since}]
    nreq,        \* number of V2 requests served
    finalized,   \* history: [variant -> {<<repo, uploadID>>: session finalized, its ID not handed out since}]
    configs,     \* MemoryConfigStore.configs
    proxyHandlers, \* Manager.proxyHandlers (sync.Map): hostName -> handler
    pc,          \* per goroutine: position in its operation
    op,          \* per goroutine: the operation it runs and its locals
    nops,        \* number of operations started on the proxy side
    certCache,   \* cert.Manager.certCache (sync.Map): hostName -> certificate
    seen,        \* history: server names of the ClientHellos received so far
    running,     \* the gateway process is up (main has built store and manager)
    storeKind,   \* the -config-type flag: "memory" or "file"
    apiPrefix,   \* the path prefix of the admin routes of the build
    configFile,  \* the file at -config-path
    adminReq,    \* the admin API request served last
    adminResp,   \* its response
    nadmin,      \* number of admin API requests served
    rt,          \* RedirectFollowingTransport.RoundTrip: its locals and what it did upstream
    routed,      \* the dispatch of the V2 path routed last
    mainPc,      \* main of cmd/proxy: "starting", "serving" (blocked on ctx.Done()), "exited"
    sigPc,       \* the goroutine of handleSignals: its position
    ctxDone,     \* cancel() has been called on main's context
    listening,   \* [listener -> its http.Server accepts connections]
    watcher,     \* [listener -> position of the goroutine that waits for ctx.Done()]
    requests,    \* [listener -> [request -> "none", "running", "completed", "cutoff"]]
    atTrigger,   \* history: the requests that were running when the signal arrived
    ca,          \* the CA of cert.Manager, the CA files on disk, the CA read at startup
    rw,          \* the sync.RWMutex of one content store
    calls,       \* [goroutine -> the store call it runs and its position]
    fs,          \* the file-backed config store under concurrent callers: map, file, calls
    mint,        \* GetOrCreateCert for one server name: its PEM files, the cache entry, the callers
    fwd          \* the Director of a proxy handler: the inbound request and the request it forwards

regVars   == <<stores, lastReq, resp, patchLog, putLog, nreq, finalized>>
proxyVars == <<configs, proxyHandlers, pc, op, nops>>
tlsVars   == <<certCache, seen>>
adminVars == <<running, storeKind, apiPrefix, configFile, adminReq, adminResp, nadmin>>
transportVars == <<rt>>
routerVars == <<routed>>
shutdownVars == <<mainPc, sigPc, ctxDone, listening, watcher, requests, atTrigger>>
caVars    == <<ca>>
lockVars  == <<rw, calls>>
extraVars == <<fs, mint, fwd>>
vars      == <<stores, lastReq, resp, patchLog, putLog, nreq, finalized,
               configs, proxyHandlers, pc, op, nops,
               certCache, seen,
               running, storeKind, apiPrefix, configFile, adminReq, adminResp, nadmin,
               rt, routed,
               mainPc, sigPc, ctxDone, listening, watcher, requests, atTrigger,
               ca, rw, calls, fs, mint, fwd>>

(***************************************************************************)
(* Bounds of the model.                                                    *)
(***************************************************************************)
MaxRequests == 3
MaxProxyOps == 3
MaxAdminOps == 3
MaxSegments == 3
MaxHandlers == 2
MaxCAChanges == 2
MaxCalls == 3
MaxFileCalls == 3
MaxMints == 3

(***************************************************************************)
(* Finite maps.                                                            *)
(***************************************************************************)
EmptyMap == [k \in {} |-> k]

MapPut(f, k, v) == [x \in (DOMAIN f) \cup {k} |-> IF x = k THEN v ELSE f[x]]

MapDel(f, k) == [x \in (DOMAIN f) \ {k} |-> f[x]]

(***************************************************************************)
(* Bytes and digests.                                                      *)
(***************************************************************************)
Byte == {0, 1, 2}

RECURSIVE HexValue(_)
\* the number a byte string denotes read as a bijective numeral: distinct strings, distinct numbers
HexValue(b) ==
    IF b = <<>> THEN 0
    ELSE HexValue(SubSeq(b, 1, Len(b) - 1)) * Cardinality(Byte) + b[Len(b)] + 1

\* fmt.Sprintf("sha256:%x", sha256.Sum256(body)); sha256 is taken to be collision-free
Sha256(b) == [sha256 |-> HexValue(b)]

\* strings.HasPrefix(reference, "sha256:")
HasPrefixSha256(reference) == "sha256" \in DOMAIN reference

\* a reference that is a tag is the record [tag |-> name]; "" is the empty reference
EmptyRef == [tag |-> ""]

\* the value a handler leaves in Docker-Content-Digest when it sets none
NoDigest == [sha256 |-> 0 - 1]

(***************************************************************************)
(* MemoryStorage.  A store operation yields [err, st, ...]: err = "" is    *)
(* Go's nil error, st the store afterwards.                                *)
(***************************************************************************)
\* &Repository{Tags: make(map), Manifests: make(map), Blobs: make(map)}
NewRepository == [Tags |-> EmptyMap, Manifests |-> EmptyMap, Blobs |-> EmptyMap]

NewMemoryStorage == [kind |-> "memory", repositories |-> EmptyMap, uploads |-> EmptyMap]

\* make([]string, 0, n) and appends: never nil
MemoryStorage_ListRepositories(s) ==
    [err |-> "", null |-> FALSE, names |-> DOMAIN s.repositories]

MemoryStorage_ListTags(s, repository) ==
    IF repository \notin DOMAIN s.repositories
    THEN [err |-> "", null |-> FALSE, names |-> {}]
    ELSE [err |-> "", null |-> FALSE, names |-> DOMAIN s.repositories[repository].Tags]

MemoryStorage_GetManifestByDigest(s, repository, digest) ==
    IF repository \notin DOMAIN s.repositories
    THEN [err |-> "repository not found", manifest |-> <<>>, digest |-> NoDigest]
    ELSE IF digest \notin DOMAIN s.repositories[repository].Manifests
    THEN [err |-> "manifest not found", manifest |-> <<>>, digest |-> NoDigest]
    ELSE [err |-> "", manifest |-> s.repositories[repository].Manifests[digest], digest |-> digest]

MemoryStorage_GetManifest(s, repository, reference) ==
    IF HasPrefixSha256(reference)
    THEN MemoryStorage_GetManifestByDigest(s, repository, reference)
    ELSE IF repository \notin DOMAIN s.repositories
    THEN [err |-> "repository not found", manifest |-> <<>>, digest |-> NoDigest]
    ELSE IF reference \notin DOMAIN s.repositories[repository].Tags
    THEN [err |-> "tag not found", manifest |-> <<>>, digest |-> NoDigest]
    ELSE MemoryStorage_GetManifestByDigest(s, repository, s.repositories[repository].Tags[reference])

MemoryStorage_PutManifest(s, repository, reference, digest, manifest) ==
    LET repo0 == IF repository \in DOMAIN s.repositories
                 THEN s.repositories[repository] ELSE NewRepository
        repo1 == [repo0 EXCEPT !.Manifests = MapPut(@, digest, manifest)]
        repo2 == IF reference # EmptyRef /\ ~HasPrefixSha256(reference)
                 THEN [repo1 EXCEPT !.Tags = MapPut(@, reference, digest)]
                 ELSE repo1
    IN [err |-> "", st |-> [s EXCEPT !.repositories = MapPut(@, repository, repo2)]]

MemoryStorage_DeleteManifest(s, repository, reference) ==
    IF repository \notin DOMAIN s.repositories
    THEN [err |-> "repository not found", st |-> s]
    ELSE LET repo == s.repositories[repository] IN
         IF HasPrefixSha256(reference)
         THEN [err |-> "",
               st |-> [s EXCEPT !.repositories[repository].Manifests = MapDel(@, reference)]]
         ELSE IF reference \notin DOMAIN repo.Tags
         THEN [err |-> "tag not found", st |-> s]
         ELSE [err |-> "",
               st |-> [s EXCEPT !.repositories[repository] =
                          [@ EXCEPT !.Tags = MapDel(@, reference),
                                    !.Manifests = MapDel(@, repo.Tags[reference])]]]

MemoryStorage_GetBlobSize(s, repository, digest) ==
    IF repository \notin DOMAIN s.repositories
    THEN [err |-> "repository not found", size |-> 0]
    ELSE IF digest \notin DOMAIN s.repositories[repository].Blobs
    THEN [err |-> "blob not found", size |-> 0]
    ELSE [err |-> "", size |-> Len(s.repositories[repository].Blobs[digest])]

MemoryStorage_GetBlob(s, repository, digest) ==
    IF repository \notin DOMAIN s.repositories
    THEN [err |-> "repository not found", data |-> <<>>, size |-> 0]
    ELSE IF digest \notin DOMAIN s.repositories[repository].Blobs
    THEN [err |-> "blob not found", data |-> <<>>, size |-> 0]
    ELSE [err |-> "", data |-> s.repositories[repository].Blobs[digest],
          size |-> Len(s.repositories[repository].Blobs[digest])]

MemoryStorage_DeleteBlob(s, repository, digest) ==
    IF repository \notin DOMAIN s.repositories
    THEN [err |-> "repository not found", st |-> s]
    ELSE [err |-> "", st |-> [s EXCEPT !.repositories[repository].Blobs = MapDel(@, digest)]]

MemoryStorage_InitiateUpload(s, repository, uploadID) ==
    LET repos == IF repository \in DOMAIN s.repositories
                 THEN s.repositories
                 ELSE MapPut(s.repositories, repository, NewRepository)
        ups   == IF repository \in DOMAIN s.uploads
                 THEN s.uploads[repository] ELSE EmptyMap
    IN [err |-> "",
        st |-> [s EXCEPT !.repositories = repos,
                         !.uploads = MapPut(@, repository, MapPut(ups, uploadID, <<>>))]]

MemoryStorage_AppendToUpload(s, repository, uploadID, data) ==
    IF repository \notin DOMAIN s.uploads
    THEN [err |-> "no uploads for repository", st |-> s, offset |-> 0]
    ELSE IF uploadID \notin DOMAIN s.uploads[repository]
    THEN [err |-> "upload not found", st |-> s, offset |-> 0]
    ELSE LET current == s.uploads[repository][uploadID] \o data
         IN [err |-> "",
             st |-> [s EXCEPT !.uploads[repository] = MapPut(@, uploadID, current)],
             offset |-> Len(current)]

\* a CompleteUpload that stores the blob and leaves the session in place
MemoryStorage_CompleteUpload_KeepsSession(s, repository, uploadID, digest, data) ==
    IF repository \notin DOMAIN s.uploads \/ uploadID \notin DOMAIN s.uploads[repository]
    THEN [err |-> "upload not found", st |-> s]
    ELSE LET repo0 == IF repository \in DOMAIN s.repositories
                      THEN s.repositories[repository] ELSE NewRepository
         IN [err |-> "",
             st |-> [s EXCEPT !.repositories =
                        MapPut(@, repository,
                               [repo0 EXCEPT !.Blobs =
                                   MapPut(@, digest, s.uploads[repository][uploadID] \o data)])]]

MemoryStorage_CompleteUpload(s, repository, uploadID, digest, data) ==
    IF repository \notin DOMAIN s.uploads
    THEN [err |-> "no uploads for repository", st |-> s]
    ELSE IF uploadID \notin DOMAIN s.uploads[repository]
    THEN [err |-> "upload not found", st |-> s]
    ELSE LET current == IF Len(data) > 0
                        THEN s.uploads[repository][uploadID] \o data
                        ELSE s.uploads[repository][uploadID]
             repo0   == IF repository \in DOMAIN s.repositories
                        THEN s.repositories[repository] ELSE NewRepository
             repo1   == [repo0 EXCEPT !.Blobs = MapPut(@, digest, current)]
         IN [err |-> "",
             st |-> [s EXCEPT !.repositories = MapPut(@, repository, repo1),
                              !.uploads[repository] = MapDel(@, uploadID)]]

(***************************************************************************)
(* FileStorage.  The directory tree under rootDir is the set `dirs` of     *)
(* directory paths plus one map per kind of file:                          *)
(*   repositories/<name>/tags/<tag>          tags[<<name, tag>>]           *)
(*   repositories/<name>/_manifests/<digest> manifests[<<name, digest>>]   *)
(*   repositories/<name>/_blobs/<digest>     blobs[<<name, digest>>]       *)
(*   uploads/<name>/<uploadID>               uploads[<<name, uploadID>>]   *)
(***************************************************************************)
\* filepath.Join(s.rootDir, "repositories", repository)
RepoDir(repository) == <<"repositories">> \o repository

UploadsDir(repository) == <<"uploads">> \o repository

\* os.MkdirAll: the directory and every missing parent
MkdirAll(dirs, path) == dirs \cup {SubSeq(path, 1, n) : n \in 1..Len(path)}

NewFileStorage ==
    [kind |-> "file",
     dirs |-> {<<"repositories">>, <<"uploads">>},
     tags |-> EmptyMap, manifests |-> EmptyMap, blobs |-> EmptyMap, uploads |-> EmptyMap]

\* os.ReadDir(repositoriesDir), keeping the entries that are directories;
\* `var repositories []string` stays nil when there is none
FileStorage_ListRepositories(s) ==
    LET entries == {<<d[2]>> : d \in {x \in s.dirs : Len(x) = 2 /\ x[1] = "repositories"}}
    IN [err |-> "", null |-> entries = {}, names |-> entries]

FileStorage_ListTags(s, repository) ==
    IF RepoDir(repository) \o <<"tags">> \notin s.dirs
    THEN [err |-> "", null |-> FALSE, names |-> {}]
    ELSE LET entries == {k[2] : k \in {x \in DOMAIN s.tags : x[1] = repository}}
         IN [err |-> "", null |-> entries = {}, names |-> entries]

FileStorage_GetManifestByDigest(s, repository, digest) ==
    IF <<repository, digest>> \notin DOMAIN s.manifests
    THEN [err |-> "failed to read manifest file", manifest |-> <<>>, digest |-> NoDigest]
    ELSE [err |-> "", manifest |-> s.manifests[<<repository, digest>>], digest |-> digest]

FileStorage_GetManifest(s, repository, reference) ==
    IF HasPrefixSha256(reference)
    THEN FileStorage_GetManifestByDigest(s, repository, reference)
    ELSE IF <<repository, reference>> \notin DOMAIN s.tags
    THEN [err |-> "failed to read tag file", manifest |-> <<>>, digest |-> NoDigest]
    ELSE FileStorage_GetManifestByDigest(s, repository, s.tags[<<repository, reference>>])

\* a PutManifest that names the manifest file after a digest-form reference
\* instead of the digest it is given
FileStorage_PutManifest_ByReference(s, repository, reference, digest, manifest) ==
    LET name == IF HasPrefixSha256(reference) THEN reference ELSE digest
        s1   == [s EXCEPT !.dirs = MkdirAll(@, RepoDir(repository) \o <<"_manifests">>),
                          !.manifests = MapPut(@, <<repository, name>>, manifest)]
    IN IF reference # EmptyRef /\ ~HasPrefixSha256(reference)
       THEN [err |-> "",
             st |-> [s1 EXCEPT !.dirs = MkdirAll(@, RepoDir(repository) \o <<"tags">>),
                               !.tags = MapPut(@, <<repository, reference>>, digest)]]
       ELSE [err |-> "", st |-> s1]

FileStorage_PutManifest(s, repository, reference, digest, manifest) ==
    LET d1 == MkdirAll(MkdirAll(s.dirs, RepoDir(repository)),
                       RepoDir(repository) \o <<"_manifests">>)
        s1 == [s EXCEPT !.dirs = d1,
                        !.manifests = MapPut(@, <<repository, digest>>, manifest)]
    IN IF reference # EmptyRef /\ ~HasPrefixSha256(reference)
       THEN [err |-> "",
             st |-> [s1 EXCEPT !.dirs = MkdirAll(@, RepoDir(repository) \o <<"tags">>),
                               !.tags = MapPut(@, <<repository, reference>>, digest)]]
       ELSE [err |-> "", st |-> s1]

FileStorage_DeleteManifest(s, repository, reference) ==
    IF HasPrefixSha256(reference)
    THEN IF <<repository, reference>> \notin DOMAIN s.manifests
         THEN [err |-> "failed to remove manifest file", st |-> s]
         ELSE [err |-> "", st |-> [s EXCEPT !.manifests = MapDel(@, <<repository, reference>>)]]
    ELSE IF <<repository, reference>> \notin DOMAIN s.tags
    THEN [err |-> "failed to read tag file", st |-> s]
    ELSE LET digest == s.tags[<<repository, reference>>]
             s1     == [s EXCEPT !.tags = MapDel(@, <<repository, reference>>)]
         IN IF <<repository, digest>> \notin DOMAIN s1.manifests
            THEN [err |-> "failed to remove manifest file", st |-> s1]
            ELSE [err |-> "",
                  st |-> [s1 EXCEPT !.manifests = MapDel(@, <<repository, digest>>)]]

FileStorage_GetBlobSize(s, repository, digest) ==
    IF <<repository, digest>> \notin DOMAIN s.blobs
    THEN [err |-> "failed to stat blob file", size |-> 0]
    ELSE [err |-> "", size |-> Len(s.blobs[<<repository, digest>>])]

FileStorage_GetBlob(s, repository, digest) ==
    IF <<repository, digest>> \notin DOMAIN s.blobs
    THEN [err |-> "failed to open blob file", data |-> <<>>, size |-> 0]
    ELSE [err |-> "", data |-> s.blobs[<<repository, digest>>],
          size |-> Len(s.blobs[<<repository, digest>>])]

FileStorage_DeleteBlob(s, repository, digest) ==
    IF <<repository, digest>> \notin DOMAIN s.blobs
    THEN [err |-> "failed to remove blob file", st |-> s]
    ELSE [err |-> "", st |-> [s EXCEPT !.blobs = MapDel(@, <<repository, digest>>)]]

\* os.Create truncates a file that already exists
FileStorage_InitiateUpload(s, repository, uploadID) ==
    [err |-> "",
     st |-> [s EXCEPT !.dirs = MkdirAll(MkdirAll(@, RepoDir(repository)), UploadsDir(repository)),
                      !.uploads = MapPut(@, <<repository, uploadID>>, <<>>)]]

\* an AppendToUpload that opens the upload file truncating instead of appending
FileStorage_AppendToUpload_Truncating(s, repository, uploadID, data) ==
    IF <<repository, uploadID>> \notin DOMAIN s.uploads
    THEN [err |-> "failed to open upload file", st |-> s, offset |-> 0]
    ELSE [err |-> "",
          st |-> [s EXCEPT !.uploads = MapPut(@, <<repository, uploadID>>, data)],
          offset |-> Len(data)]

\* os.OpenFile(uploadFile, O_WRONLY|O_APPEND): fails when the file is missing
FileStorage_AppendToUpload(s, repository, uploadID, data) ==
    IF <<repository, uploadID>> \notin DOMAIN s.uploads
    THEN [err |-> "failed to open upload file", st |-> s, offset |-> 0]
    ELSE LET current == s.uploads[<<repository, uploadID>>] \o data
         IN [err |-> "",
             st |-> [s EXCEPT !.uploads = MapPut(@, <<repository, uploadID>>, current)],
             offset |-> Len(current)]

\* os.Rename replaces an existing blob file; with the upload file missing both
\* the rename and the ReadFile of the copy fallback fail
FileStorage_CompleteUpload(s, repository, uploadID, digest, data) ==
    LET s1 == [s EXCEPT !.dirs = MkdirAll(@, RepoDir(repository) \o <<"_blobs">>)]
    IN IF <<repository, uploadID>> \notin DOMAIN s1.uploads
       THEN IF Len(data) > 0
            THEN [err |-> "failed to open upload file", st |-> s1]
            ELSE [err |-> "failed to read upload file", st |-> s1]
       ELSE LET current == IF Len(data) > 0
                           THEN s1.uploads[<<repository, uploadID>>] \o data
                           ELSE s1.uploads[<<repository, uploadID>>]
            IN [err |-> "",
                st |-> [s1 EXCEPT !.blobs = MapPut(@, <<repository, digest>>, current),
                                  !.uploads = MapDel(@, <<repository, uploadID>>)]]

(***************************************************************************)
(* storage.Storage: the handler calls the store through the interface.     *)
(***************************************************************************)
ListRepositories(s) ==
    IF s.kind = "memory" THEN MemoryStorage_ListRepositories(s)
    ELSE FileStorage_ListRepositories(s)

ListTags(s, repository) ==
    IF s.kind = "memory" THEN MemoryStorage_ListTags(s, repository)
    ELSE FileStorage_ListTags(s, repository)

GetManifest(s, repository, reference) ==
    IF s.kind = "memory" THEN MemoryStorage_GetManifest(s, repository, reference)
    ELSE FileStorage_GetManifest(s, repository, reference)

GetManifestByDigest(s, repository, digest) ==
    IF s.kind = "memory" THEN MemoryStorage_GetManifestByDigest(s, repository, digest)
    ELSE FileStorage_GetManifestByDigest(s, repository, digest)

PutManifest(s, repository, reference, digest, manifest) ==
    IF s.kind = "memory" THEN MemoryStorage_PutManifest(s, repository, reference, digest, manifest)
    ELSE FileStorage_PutManifest(s, repository, reference, digest, manifest)

DeleteManifest(s, repository, reference) ==
    IF s.kind = "memory" THEN MemoryStorage_DeleteManifest(s, repository, reference)
    ELSE FileStorage_DeleteManifest(s, repository, reference)

GetBlobSize(s, repository, digest) ==
    IF s.kind = "memory" THEN MemoryStorage_GetBlobSize(s, repository, digest)
    ELSE FileStorage_GetBlobSize(s, repository, digest)

GetBlob(s, repository, digest) ==
    IF s.kind = "memory" THEN MemoryStorage_GetBlob(s, repository, digest)
    ELSE FileStorage_GetBlob(s, repository, digest)

DeleteBlob(s, repository, digest) ==
    IF s.kind = "memory" THEN MemoryStorage_DeleteBlob(s, repository, digest)
    ELSE FileStorage_DeleteBlob(s, repository, digest)

InitiateUpload(s, repository, uploadID) ==
    IF s.kind = "memory" THEN MemoryStorage_InitiateUpload(s, repository, uploadID)
    ELSE FileStorage_InitiateUpload(s, repository, uploadID)

AppendToUpload(s, repository, uploadID, data) ==
    IF s.kind = "memory" THEN MemoryStorage_AppendToUpload(s, repository, uploadID, data)
    ELSE FileStorage_AppendToUpload(s, repository, uploadID, data)

CompleteUpload(s, repository, uploadID, digest, data) ==
    IF s.kind = "memory" THEN MemoryStorage_CompleteUpload(s, repository, uploadID, digest, data)
    ELSE FileStorage_CompleteUpload(s, repository, uploadID, digest, data)

(***************************************************************************)
(* The V2 protocol engine (gin handlers).  A handler yields [resp, st].    *)
(***************************************************************************)
MediaTypeManifestV2       == "application/vnd.docker.distribution.manifest.v2+json"
MediaTypeManifestList     == "application/vnd.docker.distribution.manifest.list.v2+json"
MediaTypeOCIManifestV1    == "application/vnd.oci.image.manifest.v1+json"
MediaTypeOCIManifestIndex == "application/vnd.oci.image.index.v1+json"

\* What a request body holds as JSON: <<1>> and <<1, 1>> are one Docker v2 manifest
\* in two spellings (white space), <<2>> a manifest list that declares no mediaType,
\* <<0>> a schemaVersion 1 document, <<3>> an OCI image manifest whose "manifests"
\* member is an object, <<4>> an OCI image index, <<5>> an OCI image manifest,
\* <<6>> a list of manifests that declares the OCI image manifest type;
\* any other byte string is not JSON.  manifests is "absent", "array" (non-empty)
\* or "object"; mediaType "" is an absent member.
JsonDocument(json, schemaVersion, mediaType, manifests) ==
    [json |-> json, schemaVersion |-> schemaVersion, mediaType |-> mediaType,
     manifests |-> manifests]

Parse(data) ==
    CASE data = <<1>>    -> JsonDocument(TRUE, 2, MediaTypeManifestV2, "absent")
      [] data = <<1, 1>> -> JsonDocument(TRUE, 2, MediaTypeManifestV2, "absent")
      [] data = <<2>>    -> JsonDocument(TRUE, 2, "", "array")
      [] data = <<0>>    -> JsonDocument(TRUE, 1, "", "absent")
      [] data = <<3>>    -> JsonDocument(TRUE, 2, MediaTypeOCIManifestV1, "object")
      [] data = <<4>>    -> JsonDocument(TRUE, 2, MediaTypeOCIManifestIndex, "array")
      [] data = <<5>>    -> JsonDocument(TRUE, 2, MediaTypeOCIManifestV1, "absent")
      [] data = <<6>>    -> JsonDocument(TRUE, 2, MediaTypeOCIManifestV1, "array")
      [] OTHER           -> JsonDocument(FALSE, 0, "", "absent")

\* json.Unmarshal into a struct with SchemaVersion, MediaType and, when the target
\* has one (hasManifests), a Manifests slice: a member the target does not have is
\* skipped, an object where the target has a slice is an UnmarshalTypeError
JsonUnmarshal(data, hasManifests) ==
    LET d == Parse(data) IN
    IF ~d.json
    THEN [err |-> TRUE, SchemaVersion |-> 0, MediaType |-> "", Manifests |-> 0]
    ELSE [err |-> hasManifests /\ d.manifests = "object",
          SchemaVersion |-> d.schemaVersion, MediaType |-> d.mediaType,
          Manifests |-> IF hasManifests /\ d.manifests = "array" THEN 1 ELSE 0]

detectManifestMediaType(data) ==
    LET m == JsonUnmarshal(data, TRUE) IN
    IF m.err THEN MediaTypeManifestV2
    ELSE IF m.SchemaVersion = 2 /\ m.Manifests > 0
    THEN IF m.MediaType = MediaTypeManifestList THEN MediaTypeManifestList
         ELSE IF m.MediaType = MediaTypeOCIManifestIndex THEN MediaTypeOCIManifestIndex
         ELSE MediaTypeManifestList
    ELSE IF m.MediaType # "" THEN m.MediaType
    ELSE MediaTypeManifestV2

\* the three branches unmarshal into Manifest, ManifestList and a generic map:
\* only ManifestList has a Manifests slice
validateManifest(data, mediaType) ==
    LET m == JsonUnmarshal(data, mediaType \in {MediaTypeManifestList,
                                                MediaTypeOCIManifestIndex})
    IN IF m.err THEN "Invalid manifest format"
       ELSE IF m.SchemaVersion # 2 THEN "Unsupported manifest schema version"
       ELSE ""

\* a response: status line, the headers the handlers set, and the body
Response(status) ==
    [status |-> status, digest |-> NoDigest, contentType |-> "", contentLength |-> 0 - 1,
     rangeSet |-> FALSE, rangeLast |-> 0, uploadID |-> "", body |-> <<>>, msg |-> "",
     null |-> FALSE, names |-> {}]

\* c.String(status, msg)
StringResponse(status, msg) == [Response(status) EXCEPT !.msg = msg]

handleCatalog(s) ==
    LET r == ListRepositories(s) IN
    IF r.err # ""
    THEN [resp |-> StringResponse(500, r.err), st |-> s]
    ELSE [resp |-> [Response(200) EXCEPT !.contentType = "application/json",
                                         !.null = r.null, !.names = r.names],
          st |-> s]

handleListTags(s, repository) ==
    LET r == ListTags(s, repository) IN
    IF r.err # ""
    THEN [resp |-> StringResponse(500, r.err), st |-> s]
    ELSE [resp |-> [Response(200) EXCEPT !.contentType = "application/json",
                                         !.null = r.null, !.names = r.names],
          st |-> s]

ManifestUnknown ==
    [StringResponse(404, "manifest unknown") EXCEPT !.contentType = MediaTypeManifestV2]

handleHeadManifest(s, repository, reference) ==
    LET r == GetManifest(s, repository, reference) IN
    IF r.err # ""
    THEN [resp |-> ManifestUnknown, st |-> s]
    ELSE [resp |-> [Response(200) EXCEPT !.contentType = detectManifestMediaType(r.manifest),
                                         !.digest = r.digest,
                                         !.contentLength = Len(r.manifest)],
          st |-> s]

handleGetManifest(s, repository, reference) ==
    LET r == IF HasPrefixSha256(reference)
             THEN GetManifestByDigest(s, repository, reference)
             ELSE GetManifest(s, repository, reference)
    IN IF r.err # ""
       THEN [resp |-> ManifestUnknown, st |-> s]
       ELSE [resp |-> [Response(200) EXCEPT !.contentType = detectManifestMediaType(r.manifest),
                                            !.digest = r.digest,
                                            !.contentLength = Len(r.manifest),
                                            !.body = r.manifest],
             st |-> s]

\* h.storage.(*storage.FileStorage) panics over any other store; gin.Recovery answers 500
handlePutManifest(s, repository, reference, body) ==
    LET digest    == Sha256(body)
        mediaType == detectManifestMediaType(body)
        invalid   == validateManifest(body, mediaType)
    IN IF invalid # ""
       THEN [resp |-> StringResponse(400, invalid), st |-> s]
       ELSE IF s.kind # "file"
       THEN [resp |-> Response(500), st |-> s]
       ELSE LET s1 == [s EXCEPT !.dirs = MkdirAll(@, RepoDir(repository) \o <<"_manifests">>)]
                r  == PutManifest(s1, repository, reference, digest, body)
            IN IF r.err # ""
               THEN [resp |-> StringResponse(500, r.err), st |-> r.st]
               ELSE [resp |-> [Response(201) EXCEPT !.digest = digest], st |-> r.st]

handleDeleteManifest(s, repository, reference) ==
    LET r == DeleteManifest(s, repository, reference) IN
    IF r.err # ""
    THEN [resp |-> StringResponse(500, r.err), st |-> r.st]
    ELSE [resp |-> Response(202), st |-> r.st]

\* the method switch of handleManifests
handleManifests(s, method, repository, reference, body) ==
    IF repository = <<>> \/ reference = EmptyRef
    THEN [resp |-> StringResponse(400, "Repository or reference not specified"), st |-> s]
    ELSE CASE method = "HEAD"   -> handleHeadManifest(s, repository, reference)
           [] method = "GET"    -> handleGetManifest(s, repository, reference)
           [] method = "PUT"    -> handlePutManifest(s, repository, reference, body)
           [] method = "DELETE" -> handleDeleteManifest(s, repository, reference)
           [] OTHER             -> [resp |-> StringResponse(405, "Method not allowed"), st |-> s]

handleHeadBlob(s, repository, digest) ==
    LET r == GetBlobSize(s, repository, digest) IN
    IF r.err # ""
    THEN [resp |-> StringResponse(404, r.err), st |-> s]
    ELSE [resp |-> [Response(200) EXCEPT !.contentType = "application/octet-stream",
                                         !.digest = digest, !.contentLength = r.size],
          st |-> s]

handleGetBlob(s, repository, digest) ==
    LET r == GetBlob(s, repository, digest) IN
    IF r.err # ""
    THEN [resp |-> StringResponse(404, r.err), st |-> s]
    ELSE [resp |-> [Response(200) EXCEPT !.contentType = "application/octet-stream",
                                         !.digest = digest, !.contentLength = r.size,
                                         !.body = r.data],
          st |-> s]

handleDeleteBlob(s, repository, digest) ==
    LET r == DeleteBlob(s, repository, digest) IN
    IF r.err # ""
    THEN [resp |-> StringResponse(500, r.err), st |-> r.st]
    ELSE [resp |-> Response(202), st |-> r.st]

handleBlobs(s, method, repository, digest) ==
    IF repository = <<>> \/ digest = EmptyRef
    THEN [resp |-> StringResponse(400, "Repository or digest not specified"), st |-> s]
    ELSE CASE method = "HEAD"   -> handleHeadBlob(s, repository, digest)
           [] method = "GET"    -> handleGetBlob(s, repository, digest)
           [] method = "DELETE" -> handleDeleteBlob(s, repository, digest)
           [] OTHER             -> [resp |-> StringResponse(405, "Method not allowed"), st |-> s]

\* uploadID is what generateUploadID read from the clock
handleInitiateUpload(s, repository, uploadID) ==
    IF repository = <<>>
    THEN [resp |-> StringResponse(400, "Repository not specified"), st |-> s]
    ELSE LET r == InitiateUpload(s, repository, uploadID) IN
         IF r.err # ""
         THEN [resp |-> StringResponse(500, r.err), st |-> r.st]
         ELSE [resp |-> [Response(202) EXCEPT !.rangeSet = TRUE, !.rangeLast = 0,
                                              !.uploadID = uploadID],
               st |-> r.st]

handlePatchUpload(s, repository, uploadID, body) ==
    LET r == AppendToUpload(s, repository, uploadID, body) IN
    IF r.err # ""
    THEN [resp |-> StringResponse(500, r.err), st |-> r.st]
    ELSE [resp |-> [Response(202) EXCEPT !.rangeSet = TRUE, !.rangeLast = r.offset - 1,
                                         !.uploadID = uploadID],
          st |-> r.st]

\* contentLength is Request.ContentLength: the declared length, -1 when the
\* body is sent chunked; the body is read only when it is positive
handlePutUpload(s, repository, uploadID, digest, body, contentLength) ==
    IF digest = EmptyRef
    THEN [resp |-> StringResponse(400, "Digest parameter required"), st |-> s]
    ELSE LET data == IF contentLength > 0 THEN body ELSE <<>>
             r    == CompleteUpload(s, repository, uploadID, digest, data)
         IN IF r.err # ""
            THEN [resp |-> StringResponse(500, r.err), st |-> r.st]
            ELSE [resp |-> [Response(201) EXCEPT !.digest = digest], st |-> r.st]

handleUpload(s, method, repository, uploadID, digest, body, contentLength) ==
    IF repository = <<>> \/ uploadID = ""
    THEN [resp |-> StringResponse(400, "Repository or upload ID not specified"), st |-> s]
    ELSE CASE method = "PATCH" -> handlePatchUpload(s, repository, uploadID, body)
           [] method = "PUT"   -> handlePutUpload(s, repository, uploadID, digest, body, contentLength)
           [] OTHER            -> [resp |-> StringResponse(405, "Method not allowed"), st |-> s]

(***************************************************************************)
(* The requests the model sends.                                           *)
(***************************************************************************)
Variants     == {"memory", "file"}
Repositories == {<<"acme", "widget">>, <<"solo">>}
TagRefs      == {[tag |-> "latest"], [tag |-> "stable"]}
ManifestBodies == {<<1>>, <<2>>, <<0>>}
DigestRefs   == {Sha256(<<1>>), Sha256(<<2>>)}
ManifestRefs == TagRefs \cup DigestRefs
Chunks       == {<<0>>, <<1>>}
FinalBodies  == {<<>>, <<1>>}
BlobDigests  == {Sha256(<<0, 1>>), Sha256(<<1>>)}
UploadIDs    == {"u1", "u2"}

Request(method, route, repository, reference, uploadID, body, contentLength) ==
    [method |-> method, route |-> route, repository |-> repository,
     reference |-> reference, uploadID |-> uploadID, body |-> body,
     contentLength |-> contentLength]

NoRequest == Request("", "", <<>>, EmptyRef, "", <<>>, 0)

\* the handler the router dispatches a request to, over store s; a request
\* for blobs/uploads/ that is not a POST goes to handleUpload with uuid ""
Handle(s, req) ==
    CASE req.route = "catalog"   -> handleCatalog(s)
      [] req.route = "tags"      -> handleListTags(s, req.repository)
      [] req.route = "manifests" -> handleManifests(s, req.method, req.repository,
                                                    req.reference, req.body)
      [] req.route = "blobs"     -> handleBlobs(s, req.method, req.repository, req.reference)
      [] req.route = "uploads"   -> IF req.method = "POST"
                                    THEN handleInitiateUpload(s, req.repository, req.uploadID)
                                    ELSE handleUpload(s, req.method, req.repository, "",
                                                      req.reference, req.body, req.contentLength)
      [] req.route = "upload"    -> handleUpload(s, req.method, req.repository, req.uploadID,
                                                 req.reference, req.body, req.contentLength)

RECURSIVE Concat(_)
Concat(chunks) ==
    IF chunks = <<>> THEN <<>> ELSE chunks[1] \o Concat(Tail(chunks))

\* the digest a manifest reference designates in store s: itself, or the tag's digest
Resolve(s, repository, reference) ==
    IF HasPrefixSha256(reference) THEN reference
    ELSE IF s.kind = "memory"
    THEN IF repository \in DOMAIN s.repositories
            /\ reference \in DOMAIN s.repositories[repository].Tags
         THEN s.repositories[repository].Tags[reference] ELSE NoDigest
    ELSE IF <<repository, reference>> \in DOMAIN s.tags
         THEN s.tags[<<repository, reference>>] ELSE NoDigest

\* history of the upload sessions of one store after it answered req with r
NextPatchLog(log, req, r) ==
    LET key == <<req.repository, req.uploadID>> IN
    CASE req.route = "uploads" /\ r.status = 202 -> MapPut(log, key, <<>>)
      [] req.route = "upload" /\ req.method = "PATCH" /\ r.status = 202
            -> MapPut(log, key, Append(log[key], req.body))
      [] req.route = "upload" /\ req.method = "PUT" /\ r.status = 201 -> MapDel(log, key)
      [] OTHER -> log

\* history of the manifests one store accepted, after it answered req with r
NextPutLog(log, s, req, r) ==
    CASE req.route = "manifests" /\ req.method = "PUT" /\ r.status = 201
            -> log \cup {<<req.repository, req.body>>}
      [] req.route = "manifests" /\ req.method = "DELETE"
            -> {e \in log : ~(e[1] = req.repository
                              /\ Sha256(e[2]) = Resolve(s, req.repository, req.reference))}
      [] OTHER -> log

\* history of the sessions one store has finalized, after it answered req with r
NextFinalized(done, req, r) ==
    LET key == <<req.repository, req.uploadID>> IN
    CASE req.route = "uploads" /\ r.status = 202 -> done \ {key}
      [] req.route = "upload" /\ req.method = "PUT" /\ r.status = 201 -> done \cup {key}
      [] OTHER -> done

\* both handlers, one per store variant, serve the request
Serve(req) ==
    \E h \in {[memory |-> Handle(stores["memory"], req),
              file |-> Handle(stores["file"], req)]} :
    /\ nreq' = nreq + 1
    /\ lastReq' = req
    /\ stores' = [v \in Variants |-> h[v].st]
    /\ resp' = [v \in Variants |-> h[v].resp]
    /\ patchLog' = [v \in Variants |-> NextPatchLog(patchLog[v], req, h[v].resp)]
    /\ putLog' = [v \in Variants |-> NextPutLog(putLog[v], stores[v], req, h[v].resp)]
    /\ finalized' = [v \in Variants |-> NextFinalized(finalized[v], req, h[v].resp)]
    /\ UNCHANGED <<proxyVars, tlsVars, adminVars, transportVars, routerVars,
                 shutdownVars, caVars, lockVars, extraVars>>

Catalog ==
    /\ nreq < MaxRequests
    /\ Serve(Request("GET", "catalog", <<>>, EmptyRef, "", <<>>, 0))

TagsList ==
    /\ nreq < MaxRequests
    /\ \E repo \in Repositories :
        Serve(Request("GET", "tags", repo, EmptyRef, "", <<>>, 0))

HeadManifest ==
    /\ nreq < MaxRequests
    /\ \E repo \in Repositories, ref \in ManifestRefs :
        Serve(Request("HEAD", "manifests", repo, ref, "", <<>>, 0))

GetManifestReq ==
    /\ nreq < MaxRequests
    /\ \E repo \in Repositories, ref \in ManifestRefs :
        Serve(Request("GET", "manifests", repo, ref, "", <<>>, 0))

\* the schemaVersion 1 document is refused before the store is read: it is sent
\* to one repository and tag only
PutManifestReq ==
    /\ nreq < MaxRequests
    /\ \E repo \in Repositories, ref \in ManifestRefs, body \in ManifestBodies :
        /\ body = <<0>> => (repo = <<"solo">> /\ ref = [tag |-> "latest"])
        /\ Serve(Request("PUT", "manifests", repo, ref, "", body, Len(body)))

\* a client pushes a manifest document of any shape under a tag
DocumentBodies == {<<1>>, <<2>>, <<0>>, <<3>>, <<4>>, <<5>>, <<6>>, <<7>>}

PutDocument ==
    /\ nreq < MaxRequests
    /\ \E repo \in Repositories, ref \in TagRefs, body \in DocumentBodies :
        Serve(Request("PUT", "manifests", repo, ref, "", body, Len(body)))

DeleteManifestReq ==
    /\ nreq < MaxRequests
    /\ \E repo \in Repositories, ref \in ManifestRefs :
        Serve(Request("DELETE", "manifests", repo, ref, "", <<>>, 0))

HeadBlob ==
    /\ nreq < MaxRequests
    /\ \E repo \in Repositories, d \in BlobDigests :
        Serve(Request("HEAD", "blobs", repo, d, "", <<>>, 0))

GetBlobReq ==
    /\ nreq < MaxRequests
    /\ \E repo \in Repositories, d \in BlobDigests :
        Serve(Request("GET", "blobs", repo, d, "", <<>>, 0))

DeleteBlobReq ==
    /\ nreq < MaxRequests
    /\ \E repo \in Repositories, d \in BlobDigests :
        Serve(Request("DELETE", "blobs", repo, d, "", <<>>, 0))

\* the upload ID is what generateUploadID makes of the clock readings
PostUpload ==
    /\ nreq < MaxRequests
    /\ \E repo \in Repositories, id \in UploadIDs :
        Serve(Request("POST", "uploads", repo, EmptyRef, id, <<>>, 0))

PatchUpload ==
    /\ nreq < MaxRequests
    /\ \E repo \in Repositories, id \in UploadIDs, c \in Chunks :
        Serve(Request("PATCH", "upload", repo, EmptyRef, id, c, Len(c)))

\* the body of the finalizing PUT is sent with its length declared or, when
\* it is not empty, chunked; a PUT without digest is refused before the store
\* is read: it is sent to one session only
PutUpload ==
    /\ nreq < MaxRequests
    /\ \E repo \in Repositories, id \in UploadIDs, d \in BlobDigests \cup {EmptyRef},
          c \in FinalBodies, chunked \in BOOLEAN :
        /\ chunked => c # <<>>
        /\ d = EmptyRef => (repo = <<"solo">> /\ id = "u1" /\ c = <<>>)
        /\ Serve(Request("PUT", "upload", repo, d, id, c, IF chunked THEN 0 - 1 ELSE Len(c)))

\* a request with a method the route's table does not list
OtherMethod ==
    /\ nreq < MaxRequests
    /\ \E repo \in {<<"solo">>}, id \in {"u1"} :
        \E req \in {Request("POST", "catalog", <<>>, EmptyRef, "", <<>>, 0),
                   Request("POST", "tags", repo, EmptyRef, "", <<>>, 0),
                   Request("POST", "manifests", repo, [tag |-> "latest"], "", <<>>, 0),
                   Request("PUT", "blobs", repo, Sha256(<<1>>), "", <<>>, 0),
                   Request("GET", "uploads", repo, EmptyRef, "", <<>>, 0),
                   Request("POST", "upload", repo, EmptyRef, id, <<>>, 0)} :
            Serve(req)

\* DELETE /v2/<name>/blobs/uploads/<uuid>
DeleteUpload ==
    /\ nreq < MaxRequests
    /\ \E repo \in Repositories, id \in UploadIDs :
        Serve(Request("DELETE", "upload", repo, EmptyRef, id, <<>>, 0))

(***************************************************************************)
(* The gateway: config store, registry Manager with its proxy-handler      *)
(* cache, the handler of the proxy listener, and the certificate chosen    *)
(* for a TLS ClientHello.  Each goroutine runs one operation at a time;    *)
(* one action is one access to a shared structure (the store under its     *)
(* mutex, a sync.Map method) with the local computation that follows it.   *)
(***************************************************************************)
Goroutines == {"g1", "g2"}
Hosts      == {"docker.io", "gcr.io", "mirror.local"}

\* []string of Config.DNSNames: Go's nil slice is told apart from a slice
NilNames   == [isNil |-> TRUE, names |-> <<>>]

Names(seq) == [isNil |-> FALSE, names |-> seq]

Config(hostName, remoteURL, username, dnsNames) ==
    [HostName |-> hostName, RemoteURL |-> remoteURL, Username |-> username,
     Password |-> "", DNSNames |-> dnsNames]

\* config.Config{}
ZeroConfig == Config("", "", "", NilNames)

GetDNSNames(c) == IF c.DNSNames.isNil THEN <<c.HostName>> ELSE c.DNSNames.names

\* the entries of loadDefaultConfigs for the hosts of the model
DefaultConfigs ==
    {Config("docker.io", "https://registry-1.docker.io", "", NilNames),
     Config("gcr.io", "https://gcr.io", "", NilNames)}

\* the mappings the admin API is asked to add
AddInputs ==
    {Config("docker.io", "https://mirror.example", "", NilNames),
     Config("gcr.io", "https://mirror.example", "bot", Names(<<"k8s.gcr.io">>)),
     Config("mirror.local", "https://mirror.example", "", NilNames),
     Config("mirror.local", "://", "", NilNames)}

\* MemoryConfigStore.Get
MemoryConfigStore_Get(cs, hostName) ==
    IF hostName \in DOMAIN cs
    THEN [config |-> cs[hostName], ok |-> TRUE]
    ELSE [config |-> ZeroConfig, ok |-> FALSE]

\* a List that returns the stored records as they are
MemoryConfigStore_List_Full(cs) == {cs[h] : h \in DOMAIN cs}

\* MemoryConfigStore.List: host name and remote URL only, in map order
MemoryConfigStore_List(cs) ==
    {Config(cs[h].HostName, cs[h].RemoteURL, "", NilNames) : h \in DOMAIN cs}

MemoryConfigStore_Add(cs, config) == MapPut(cs, config.HostName, config)

MemoryConfigStore_Remove(cs, hostName) ==
    IF hostName \in DOMAIN cs
    THEN [configs |-> MapDel(cs, hostName), removed |-> TRUE]
    ELSE [configs |-> cs, removed |-> FALSE]

\* the config GetDefaultConfig returns when the store has no mapping to offer
LiteralDefault == Config("docker.io", "https://registry-1.docker.io", "", NilNames)

NoHandler == [hostName |-> "", target |-> "", username |-> ""]

\* url.Parse fails on a URL with no scheme before the colon
UrlParseFails(remoteURL) == remoteURL = "://"

\* NewRegistryProxyHandler: the reverse proxy keeps the target and the credentials
NewRegistryProxyHandler(config) ==
    IF UrlParseFails(config.RemoteURL)
    THEN [err |-> TRUE, handler |-> NoHandler]
    ELSE [err |-> FALSE,
          handler |-> [hostName |-> config.HostName, target |-> config.RemoteURL,
                       username |-> config.Username]]

NoCert == [CommonName |-> "", DNSNames |-> <<>>, SerialNumber |-> 0, issuer |-> ""]

\* generateServerCert: the template signed with the CA key
generateServerCert(hostName, dnsNames) ==
    [CommonName |-> hostName, DNSNames |-> <<hostName>> \o dnsNames,
     SerialNumber |-> 2, issuer |-> "Registry Proxy CA"]

\* tls.LoadX509KeyPair(certFile, keyFile): the operator's certificate
OperatorCert ==
    [CommonName |-> "operator", DNSNames |-> <<>>, SerialNumber |-> 0, issuer |-> "operator"]

\* what a goroutine keeps of the operation it runs
Operation(kind, host) ==
    [kind |-> kind, host |-> host, config |-> ZeroConfig, mapped |-> FALSE,
     first |-> "", removed |-> FALSE, status |-> 0, served |-> NoHandler,
     built |-> FALSE, fresh |-> FALSE, cert |-> NoCert, err |-> ""]

Resting(g) == pc[g] \in {"idle", "done"}

\* goroutine g starts an operation
Begin(g) ==
    /\ Resting(g)
    /\ nops < MaxProxyOps
    /\ nops' = nops + 1

Goto(g, label, o) ==
    /\ pc' = [pc EXCEPT ![g] = label]
    /\ op' = [op EXCEPT ![g] = o]

\* Manager.AddConfig, first half: rm.store.Add(config)
AddConfigStore(g, config) ==
    /\ Begin(g)
    /\ configs' = MemoryConfigStore_Add(configs, config)
    /\ Goto(g, "add_Delete", [Operation("AddConfig", config.HostName) EXCEPT !.config = config])
    /\ UNCHANGED <<proxyHandlers, regVars, shutdownVars, caVars, lockVars, adminVars, transportVars, routerVars, tlsVars, extraVars>>

\* an AddConfig that returns without touching the handler cache
AddConfigDelete_KeepsHandler(g) ==
    /\ pc[g] = "add_Delete"
    /\ Goto(g, "done", op[g])
    /\ UNCHANGED <<configs, proxyHandlers, nops, regVars, shutdownVars, caVars, lockVars, adminVars, transportVars, routerVars, tlsVars, extraVars>>

\* Manager.AddConfig, second half: rm.proxyHandlers.Delete(config.HostName), return nil
AddConfigDelete(g) ==
    /\ pc[g] = "add_Delete"
    /\ proxyHandlers' = MapDel(proxyHandlers, op[g].host)
    /\ Goto(g, "done", op[g])
    /\ UNCHANGED <<configs, nops, regVars, shutdownVars, caVars, lockVars, adminVars, transportVars, routerVars, tlsVars, extraVars>>

\* Manager.RemoveConfig, first half: rm.store.Remove(hostName); returns false when nothing was removed
RemoveConfigStore(g, hostName) ==
    LET r == MemoryConfigStore_Remove(configs, hostName) IN
    /\ Begin(g)
    /\ configs' = r.configs
    /\ Goto(g, IF r.removed THEN "rm_Delete" ELSE "done",
            [Operation("RemoveConfig", hostName) EXCEPT !.removed = r.removed])
    /\ UNCHANGED <<proxyHandlers, regVars, shutdownVars, caVars, lockVars, adminVars, transportVars, routerVars, tlsVars, extraVars>>

\* Manager.RemoveConfig, second half: rm.proxyHandlers.Delete(hostName), return true
RemoveConfigDelete(g) ==
    /\ pc[g] = "rm_Delete"
    /\ proxyHandlers' = MapDel(proxyHandlers, op[g].host)
    /\ Goto(g, "done", op[g])
    /\ UNCHANGED <<configs, nops, regVars, shutdownVars, caVars, lockVars, adminVars, transportVars, routerVars, tlsVars, extraVars>>

\* a proxy handler that answers a host without mapping itself instead of
\* asking for the default mapping
ProxyGetConfig_LocalFallback(g, host) ==
    LET r == MemoryConfigStore_Get(configs, host) IN
    /\ Begin(g)
    /\ IF r.ok
       THEN Goto(g, "proxy_Load",
                 [Operation("Request", host) EXCEPT !.mapped = TRUE, !.config = r.config])
       ELSE Goto(g, "done", [Operation("Request", host) EXCEPT !.status = 200])
    /\ UNCHANGED <<configs, proxyHandlers, regVars, shutdownVars, caVars, lockVars, adminVars, transportVars, routerVars, tlsVars, extraVars>>

\* CreateProxyHandler: the port is stripped from r.Host, then manager.GetConfig(host)
ProxyGetConfig(g, host) ==
    LET r == MemoryConfigStore_Get(configs, host) IN
    /\ Begin(g)
    /\ IF r.ok
       THEN Goto(g, "proxy_Load",
                 [Operation("Request", host) EXCEPT !.mapped = TRUE, !.config = r.config])
       ELSE Goto(g, "default_Get", Operation("Request", host))
    /\ UNCHANGED <<configs, proxyHandlers, regVars, shutdownVars, caVars, lockVars, adminVars, transportVars, routerVars, tlsVars, extraVars>>

\* GetDefaultConfig: rm.store.Get("docker.io")
DefaultGetDocker(g) ==
    LET r == MemoryConfigStore_Get(configs, "docker.io") IN
    /\ pc[g] = "default_Get"
    /\ IF r.ok
       THEN Goto(g, "proxy_Load", [op[g] EXCEPT !.config = r.config])
       ELSE Goto(g, "default_List", op[g])
    /\ UNCHANGED <<configs, proxyHandlers, nops, regVars, shutdownVars, caVars, lockVars, adminVars, transportVars, routerVars, tlsVars, extraVars>>

\* GetDefaultConfig: rm.store.List() and configs[0], the first in map order
DefaultList(g) ==
    /\ pc[g] = "default_List"
    /\ IF MemoryConfigStore_List(configs) = {}
       THEN Goto(g, "proxy_Load", [op[g] EXCEPT !.config = LiteralDefault])
       ELSE \E c \in MemoryConfigStore_List(configs) :
               Goto(g, "default_First", [op[g] EXCEPT !.first = c.HostName])
    /\ UNCHANGED <<configs, proxyHandlers, nops, regVars, shutdownVars, caVars, lockVars, adminVars, transportVars, routerVars, tlsVars, extraVars>>

\* GetDefaultConfig: rm.store.Get(configs[0].HostName), else the literal default
DefaultGetFirst(g) ==
    LET r == MemoryConfigStore_Get(configs, op[g].first) IN
    /\ pc[g] = "default_First"
    /\ Goto(g, "proxy_Load",
            [op[g] EXCEPT !.config = IF r.ok THEN r.config ELSE LiteralDefault])
    /\ UNCHANGED <<configs, proxyHandlers, nops, regVars, shutdownVars, caVars, lockVars, adminVars, transportVars, routerVars, tlsVars, extraVars>>

\* GetProxyHandler: rm.proxyHandlers.Load(config.HostName); a hit is served
ProxyLoad(g) ==
    /\ pc[g] = "proxy_Load"
    /\ IF op[g].config.HostName \in DOMAIN proxyHandlers
       THEN Goto(g, "done", [op[g] EXCEPT !.status = 200,
                                          !.served = proxyHandlers[op[g].config.HostName]])
       ELSE Goto(g, "proxy_Store", op[g])
    /\ UNCHANGED <<configs, proxyHandlers, nops, regVars, shutdownVars, caVars, lockVars, adminVars, transportVars, routerVars, tlsVars, extraVars>>

\* GetProxyHandler: NewRegistryProxyHandler(config), rm.proxyHandlers.Store, then
\* proxyHandler.ServeHTTP; "Failed to create proxy" when the handler cannot be built
ProxyStore(g) ==
    LET r == NewRegistryProxyHandler(op[g].config) IN
    /\ pc[g] = "proxy_Store"
    /\ IF r.err
       THEN /\ Goto(g, "done", [op[g] EXCEPT !.status = 500])
            /\ UNCHANGED proxyHandlers
       ELSE /\ Goto(g, "done", [op[g] EXCEPT !.status = 200, !.served = r.handler,
                                             !.built = TRUE])
            /\ proxyHandlers' = MapPut(proxyHandlers, op[g].config.HostName, r.handler)
    /\ UNCHANGED <<configs, nops, regVars, shutdownVars, caVars, lockVars, adminVars, transportVars, routerVars, tlsVars, extraVars>>

\* GetConfigForClient of the TLS listener the agent starts (manager is never
\* nil there): the operator's certificate when files are given, else the
\* mapping of info.ServerName is looked up
HelloGetConfig(g, serverName, certFiles) ==
    LET r == MemoryConfigStore_Get(configs, serverName)
        o == [Operation("ClientHello", serverName) EXCEPT !.fresh = serverName \notin seen]
    IN /\ Begin(g)
       /\ seen' = seen \cup {serverName}
       /\ IF certFiles
          THEN Goto(g, "done", [o EXCEPT !.cert = OperatorCert])
          ELSE IF ~r.ok
          THEN Goto(g, "done", [o EXCEPT !.err = "no config found for host"])
          ELSE Goto(g, "cert_Load", [o EXCEPT !.mapped = TRUE, !.config = r.config])
       /\ UNCHANGED <<configs, proxyHandlers, certCache, regVars, shutdownVars, caVars, lockVars, adminVars, transportVars, routerVars, extraVars>>

\* GetOrCreateCert: m.certCache.Load(hostName)
CertLoad(g) ==
    /\ pc[g] = "cert_Load"
    /\ IF op[g].host \in DOMAIN certCache
       THEN Goto(g, "done", [op[g] EXCEPT !.cert = certCache[op[g].host]])
       ELSE Goto(g, "cert_Store", op[g])
    /\ UNCHANGED <<configs, proxyHandlers, nops, regVars, shutdownVars, caVars, lockVars, adminVars, transportVars, routerVars, tlsVars, extraVars>>

\* the CA GetManager made or loaded when the process started
StartupCA == 1

\* the CA key pair of the manager (mem), the one in the CA files (disk, 0 when
\* the files are missing), the number of key pairs made so far, and, as
\* history, the CAs that have signed a leaf and the changes made to the files
CAState(mem, disk, minted, signedBy, changes) ==
    [mem |-> mem, disk |-> disk, minted |-> minted, signedBy |-> signedBy,
     changes |-> changes]

\* rsa.GenerateKey: a key pair no one has seen before
NewKey(c) == c.minted + 1

\* loadCA: m.caCert and m.caKey are read from the CA files
loadCA(c) == [c EXCEPT !.mem = c.disk]

\* generateCA: a new key pair, saved to the CA files and kept
generateCA(c) == [c EXCEPT !.mem = NewKey(c), !.disk = NewKey(c), !.minted = NewKey(c)]

\* ensureCA: os.Stat(CACertFile) succeeds and the files are loaded, or a new
\* CA is generated
ensureCA(c) == IF c.disk # 0 THEN loadCA(c) ELSE generateCA(c)

\* GetOrCreateCert: ensureCA, generateServerCert(hostName, dnsNames) signed with
\* m.caKey, m.certCache.Store
CertStore(g) ==
    LET cert == generateServerCert(op[g].host, GetDNSNames(op[g].config))
        c    == ensureCA(ca)
    IN
    /\ pc[g] = "cert_Store"
    /\ ca' = [c EXCEPT !.signedBy = @ \cup {c.mem}]
    /\ certCache' = MapPut(certCache, op[g].host, cert)
    /\ Goto(g, "done", [op[g] EXCEPT !.cert = cert])
    /\ UNCHANGED <<configs, proxyHandlers, nops, seen, regVars, shutdownVars, lockVars, adminVars, transportVars, routerVars, extraVars>>

\* the CA files are removed from the temporary directory
CAFilesRemoved ==
    /\ ca.changes < MaxCAChanges
    /\ ca.disk # 0
    /\ ca' = [ca EXCEPT !.disk = 0, !.changes = @ + 1]
    /\ UNCHANGED <<regVars, proxyVars, tlsVars, adminVars, transportVars, routerVars,
                   shutdownVars, lockVars, extraVars>>

\* the CA files are overwritten with the certificate and key of another CA
CAFilesReplaced ==
    /\ ca.changes < MaxCAChanges
    /\ ca' = [ca EXCEPT !.disk = NewKey(ca), !.minted = NewKey(ca), !.changes = @ + 1]
    /\ UNCHANGED <<regVars, proxyVars, tlsVars, adminVars, transportVars, routerVars,
                   shutdownVars, lockVars, extraVars>>

(***************************************************************************)
(* The config file, the file variant of the config store, the Manager      *)
(* called from one goroutine, and the admin API over it.                   *)
(***************************************************************************)
Credentials(c, username, password) ==
    [c EXCEPT !.Username = username, !.Password = password]

\* json.Marshal then json.Unmarshal of a Config: "omitempty" drops an empty
\* dnsNames array, which is read back as the nil slice
JsonConfig(c) ==
    IF c.DNSNames = Names(<<>>) THEN [c EXCEPT !.DNSNames = NilNames] ELSE c

\* the file at the config path: json is FALSE when the content is not a JSON array
FileOf(exists, json, cs) == [exists |-> exists, json |-> json, configs |-> cs]

NoFile == FileOf(FALSE, FALSE, EmptyMap)

\* how MkdirAll and ioutil.WriteFile of saveToFile end: written, refused before
\* the file is opened, or failed after the file was truncated
WriteOutcomes == {"ok", "denied", "partial"}

\* a saveToFile that reports no error when the file was not written
saveToFile_Silent(cs, file, w) ==
    [err |-> "", file |-> IF w = "ok" THEN FileOf(TRUE, TRUE, cs) ELSE file]

\* FileConfigStore.saveToFile
saveToFile(cs, file, w) ==
    LET listed == MemoryConfigStore_List(cs)
        fullConfigs == [h \in {c.HostName : c \in listed} |->
                           JsonConfig(MemoryConfigStore_Get(cs, h).config)]
    IN  CASE w = "ok"      -> [err |-> "", file |-> FileOf(TRUE, TRUE, fullConfigs)]
          [] w = "denied"  -> [err |-> "write", file |-> file]
          [] w = "partial" -> [err |-> "write", file |-> FileOf(TRUE, FALSE, EmptyMap)]

\* FileConfigStore.loadFromFile: every config of the array is added to the map
loadFromFile(file) ==
    IF file.json THEN [err |-> "", configs |-> file.configs]
    ELSE [err |-> "unmarshal", configs |-> EmptyMap]

\* NewFileConfigStore: a file that does not exist is an empty store
NewFileConfigStore(file) ==
    IF file.exists THEN loadFromFile(file) ELSE [err |-> "", configs |-> EmptyMap]

\* CreateConfigStore
CreateConfigStore(configType, file) ==
    IF configType = "memory" THEN [err |-> "", configs |-> EmptyMap]
    ELSE NewFileConfigStore(file)

\* FileConfigStore.Add
FileConfigStore_Add(cs, file, config, w) ==
    LET added == MemoryConfigStore_Add(cs, config)
        saved == saveToFile(added, file, w)
    IN  [configs |-> added, file |-> saved.file, err |-> saved.err]

\* FileConfigStore.Remove
FileConfigStore_Remove(cs, file, hostName, w) ==
    LET r == MemoryConfigStore_Remove(cs, hostName)
        saved == saveToFile(r.configs, file, w)
    IN  IF r.removed
        THEN [configs |-> r.configs, file |-> saved.file, removed |-> TRUE, err |-> saved.err]
        ELSE [configs |-> r.configs, file |-> file, removed |-> FALSE, err |-> ""]

\* the Manager and what it holds: m.kind is the variant behind rm.store
ManagerOf(kind, cs, handlers, file) ==
    [kind |-> kind, configs |-> cs, handlers |-> handlers, file |-> file]

\* ConfigStore.Add
ConfigStore_Add(m, config, w) ==
    IF m.kind = "file" THEN FileConfigStore_Add(m.configs, m.file, config, w)
    ELSE [configs |-> MemoryConfigStore_Add(m.configs, config), file |-> m.file, err |-> ""]

\* ConfigStore.Remove
ConfigStore_Remove(m, hostName, w) ==
    IF m.kind = "file" THEN FileConfigStore_Remove(m.configs, m.file, hostName, w)
    ELSE LET r == MemoryConfigStore_Remove(m.configs, hostName)
         IN  [configs |-> r.configs, file |-> m.file, removed |-> r.removed, err |-> ""]

\* Manager.AddConfig: the cached handler is dropped only when the store reports no error
Manager_AddConfig(m, config, w) ==
    LET r == ConfigStore_Add(m, config, w) IN
    [m |-> ManagerOf(m.kind, r.configs,
                     IF r.err = "" THEN MapDel(m.handlers, config.HostName) ELSE m.handlers,
                     r.file),
     err |-> r.err]

\* Manager.RemoveConfig: (false, err) when the store reports an error
Manager_RemoveConfig(m, hostName, w) ==
    LET r == ConfigStore_Remove(m, hostName, w) IN
    [m |-> ManagerOf(m.kind, r.configs,
                     IF r.err = "" /\ r.removed THEN MapDel(m.handlers, hostName)
                     ELSE m.handlers,
                     r.file),
     removed |-> r.err = "" /\ r.removed,
     err |-> r.err]

\* Manager.GetConfig
Manager_GetConfig(m, hostName) == MemoryConfigStore_Get(m.configs, hostName)

\* Manager.ListConfigs
Manager_ListConfigs(m) == MemoryConfigStore_List(m.configs)

\* the defaultConfigs slice of loadDefaultConfigs, in its order, for the hosts of the model
defaultConfigs ==
    <<Config("docker.io", "https://registry-1.docker.io", "", NilNames),
      Config("gcr.io", "https://gcr.io", "", NilNames)>>

\* the loop of loadDefaultConfigs from entry i on: rm.AddConfig for every entry,
\* an error is logged and the loop goes on
RECURSIVE loadDefaultConfigsFrom(_, _, _)
loadDefaultConfigsFrom(m, i, ws) ==
    IF i > Len(defaultConfigs) THEN m
    ELSE loadDefaultConfigsFrom(Manager_AddConfig(m, defaultConfigs[i], ws[i]).m, i + 1, ws)

\* Manager.loadDefaultConfigs; ws[i] is how the write of the i-th AddConfig ends
loadDefaultConfigs(m, ws) == loadDefaultConfigsFrom(m, 1, ws)

\* NewManager(store)
NewManager(kind, cs, file, ws) == loadDefaultConfigs(ManagerOf(kind, cs, EmptyMap, file), ws)

\* the manager of the running process
TheManager == ManagerOf(storeKind, configs, proxyHandlers, configFile)

\* ---- admin API
\* the builds of StartAdminServer, by the prefix their routes are registered under
ApiPrefixes == {<<"", "api", "v1">>, <<"", "api">>}

AdminRequest(method, path, decodable, body) ==
    [method |-> method, path |-> path, decodable |-> decodable, body |-> body]

NoAdminRequest == AdminRequest("", <<>>, FALSE, ZeroConfig)

AdminResponse(status) == [status |-> status, config |-> ZeroConfig, list |-> {}]

\* the host name the per-host handler works on: strings.Split(r.URL.Path, "/")[3]
\* under /api/v1, strings.TrimPrefix(r.URL.Path, "/api/registries/") under /api
PathHostName(prefix, path) ==
    IF prefix = <<"", "api", "v1">> THEN path[4] ELSE path[Len(path)]

\* GET <prefix>/registries
adminList(m) ==
    [resp |-> [AdminResponse(200) EXCEPT !.list = Manager_ListConfigs(m)], m |-> m]

\* POST <prefix>/registries: a store error is 400 under /api/v1, 500 under /api
adminPost(prefix, m, req, w) ==
    LET r == Manager_AddConfig(m, req.body, w) IN
    IF ~req.decodable THEN [resp |-> AdminResponse(400), m |-> m]
    ELSE IF r.err # ""
    THEN [resp |-> AdminResponse(IF prefix = <<"", "api", "v1">> THEN 400 ELSE 500), m |-> r.m]
    ELSE [resp |-> AdminResponse(201), m |-> r.m]

\* GET <prefix>/registries/<host>: json.NewEncoder(w).Encode(config) of the stored config
adminGet(prefix, m, req) ==
    LET hostName == PathHostName(prefix, req.path)
        r == Manager_GetConfig(m, hostName)
    IN  IF prefix = <<"", "api">> /\ hostName = "" THEN [resp |-> AdminResponse(400), m |-> m]
        ELSE IF ~r.ok THEN [resp |-> AdminResponse(404), m |-> m]
        ELSE [resp |-> [AdminResponse(200) EXCEPT !.config = JsonConfig(r.config)], m |-> m]

\* PUT <prefix>/registries/<host>: only the /api/v1 build has it
adminPut(prefix, m, req, w) ==
    LET hostName == PathHostName(prefix, req.path)
        r == Manager_AddConfig(m, [req.body EXCEPT !.HostName = hostName], w)
    IN  IF prefix = <<"", "api">>
        THEN [resp |-> AdminResponse(IF hostName = "" THEN 400 ELSE 405), m |-> m]
        ELSE IF ~req.decodable THEN [resp |-> AdminResponse(400), m |-> m]
        ELSE IF r.err # "" THEN [resp |-> AdminResponse(400), m |-> r.m]
        ELSE [resp |-> AdminResponse(200), m |-> r.m]

\* DELETE <prefix>/registries/<host>
adminDelete(prefix, m, req, w) ==
    LET hostName == PathHostName(prefix, req.path)
        r == Manager_RemoveConfig(m, hostName, w)
    IN  IF prefix = <<"", "api">> /\ hostName = "" THEN [resp |-> AdminResponse(400), m |-> m]
        ELSE IF r.err # "" THEN [resp |-> AdminResponse(500), m |-> r.m]
        ELSE IF ~r.removed THEN [resp |-> AdminResponse(404), m |-> r.m]
        ELSE [resp |-> AdminResponse(204), m |-> r.m]

\* the hosts the admin API is asked about
AdminHosts == {"docker.io", "mirror.local", "registries", ""}

\* the mappings the request bodies of the admin API decode to
AdminBodies ==
    {Credentials(Config("docker.io", "https://mirror.example", "", NilNames), "bot", "s3cret"),
     Config("mirror.local", "https://mirror.example", "", Names(<<>>)),
     Credentials(Config("registries", "https://mirror.example", "", NilNames), "bot", "s3cret"),
     Config("", "https://mirror.example", "", NilNames),
     Config("mirror.local", "://", "", NilNames)}

\* the config files an operator starts the gateway with
InitialFiles ==
    {NoFile,
     FileOf(TRUE, TRUE, EmptyMap),
     FileOf(TRUE, TRUE,
            MapPut(EmptyMap, "docker.io",
                   Credentials(Config("docker.io", "https://mirror.example", "", NilNames),
                               "bot", "s3cret"))),
     FileOf(TRUE, TRUE,
            MapPut(EmptyMap, "mirror.local",
                   Config("mirror.local", "https://mirror.example", "", NilNames)))}

ListPath(prefix) == prefix \o <<"registries">>

HostPath(prefix, host) == prefix \o <<"registries", host>>

\* the outcomes of the writes one operation can attempt
Writes(kind) == IF kind = "file" THEN WriteOutcomes ELSE {"ok"}

\* main: CreateConfigStore, then NewManager; log.Fatalf when the store cannot be created
Startup ==
    /\ ~running
    /\ LET store == CreateConfigStore(storeKind, configFile) IN
       /\ store.err = ""
       /\ \E ws \in [1..Len(defaultConfigs) -> Writes(storeKind)] :
             LET m == NewManager(storeKind, store.configs, configFile, ws) IN
             /\ configs' = m.configs
             /\ proxyHandlers' = m.handlers
             /\ configFile' = m.file
    /\ running' = TRUE
    /\ UNCHANGED <<storeKind, apiPrefix, adminReq, adminResp, nadmin>>
    /\ UNCHANGED <<pc, op, nops, regVars, shutdownVars, caVars, lockVars, tlsVars, transportVars, routerVars, extraVars>>

\* the process ends: what it held in memory is gone, the file stays
Shutdown ==
    /\ running
    /\ nadmin < MaxAdminOps
    /\ nadmin' = nadmin + 1
    /\ running' = FALSE
    /\ configs' = EmptyMap
    /\ proxyHandlers' = EmptyMap
    /\ UNCHANGED <<storeKind, apiPrefix, configFile, adminReq, adminResp>>
    /\ UNCHANGED <<pc, op, nops, regVars, shutdownVars, caVars, lockVars, tlsVars, transportVars, routerVars, extraVars>>

\* the admin server answers req with h
AdminServe(req, h) ==
    /\ running
    /\ nadmin < MaxAdminOps
    /\ nadmin' = nadmin + 1
    /\ adminReq' = req
    /\ adminResp' = h.resp
    /\ configs' = h.m.configs
    /\ proxyHandlers' = h.m.handlers
    /\ configFile' = h.m.file
    /\ UNCHANGED <<running, storeKind, apiPrefix>>
    /\ UNCHANGED <<pc, op, nops, regVars, shutdownVars, caVars, lockVars, tlsVars, transportVars, routerVars, extraVars>>

AdminList ==
    AdminServe(AdminRequest("GET", ListPath(apiPrefix), FALSE, ZeroConfig),
               adminList(TheManager))

AdminPost ==
    \E decodable \in BOOLEAN, body \in AdminBodies, w \in Writes(storeKind) :
        LET req == AdminRequest("POST", ListPath(apiPrefix), decodable,
                                IF decodable THEN body ELSE ZeroConfig)
        IN  /\ ~decodable => body = CHOOSE b \in AdminBodies : TRUE
            /\ AdminServe(req, adminPost(apiPrefix, TheManager, req, w))

AdminGet ==
    \E host \in AdminHosts :
        LET req == AdminRequest("GET", HostPath(apiPrefix, host), FALSE, ZeroConfig)
        IN  AdminServe(req, adminGet(apiPrefix, TheManager, req))

\* the bodies of the PUT requests: the host of the path replaces that of the body
PutBodies == {body \in AdminBodies : body.HostName = "mirror.local"}

AdminPut ==
    \E host \in AdminHosts, body \in PutBodies, w \in Writes(storeKind) :
        LET req == AdminRequest("PUT", HostPath(apiPrefix, host), TRUE, body)
        IN  AdminServe(req, adminPut(apiPrefix, TheManager, req, w))

AdminDelete ==
    \E host \in AdminHosts, w \in Writes(storeKind) :
        LET req == AdminRequest("DELETE", HostPath(apiPrefix, host), FALSE, ZeroConfig)
        IN  AdminServe(req, adminDelete(apiPrefix, TheManager, req, w))

\* GetDefaultConfig, called with nothing else running: the docker.io mapping,
\* else the mapping List returns first (any, in map order), else the literal default
GetDefaultConfig(cs) ==
    IF MemoryConfigStore_Get(cs, "docker.io").ok THEN {cs["docker.io"]}
    ELSE IF MemoryConfigStore_List(cs) = {} THEN {LiteralDefault}
    ELSE {cs[c.HostName] : c \in MemoryConfigStore_List(cs)}

\* Manager.GetProxyHandler: the cached handler of config.HostName, or a new one, cached
GetProxyHandler(m, config) ==
    LET r == NewRegistryProxyHandler(config) IN
    IF config.HostName \in DOMAIN m.handlers
    THEN [status |-> 200, served |-> m.handlers[config.HostName], built |-> FALSE,
          handlers |-> m.handlers]
    ELSE IF r.err
    THEN [status |-> 500, served |-> NoHandler, built |-> FALSE, handlers |-> m.handlers]
    ELSE [status |-> 200, served |-> r.handler, built |-> TRUE,
          handlers |-> MapPut(m.handlers, config.HostName, r.handler)]

\* CreateProxyHandler serving one request of the proxy listener while the
\* admin API is idle: GetConfig(host), GetDefaultConfig when there is no
\* mapping, GetProxyHandler, ServeHTTP
ProxyRequest ==
    /\ running
    /\ nadmin < MaxAdminOps
    /\ nadmin' = nadmin + 1
    /\ \E host \in Hosts :
         LET r == Manager_GetConfig(TheManager, host) IN
         \E config \in IF r.ok THEN {r.config} ELSE GetDefaultConfig(configs) :
            LET h == GetProxyHandler(TheManager, config) IN
            /\ proxyHandlers' = h.handlers
            /\ op' = [op EXCEPT !["g1"] =
                         [Operation("Request", host) EXCEPT !.mapped = r.ok, !.config = config,
                                                            !.status = h.status,
                                                            !.served = h.served,
                                                            !.built = h.built]]
    /\ UNCHANGED <<running, storeKind, apiPrefix, configFile, adminReq, adminResp, configs>>
    /\ UNCHANGED <<pc, nops, regVars, shutdownVars, caVars, lockVars, tlsVars, transportVars,
                   routerVars, extraVars>>

(***************************************************************************)
(* The redirect-following transport.  A URL is the record of its host and  *)
(* path; a header is a function from header names to sequences of values.  *)
(***************************************************************************)
\* proxytransprt.NewRedirectFollowingTransport(transport, 5)
maxRedirects == 5

URL(host, path) == [host |-> host, path |-> path]

NoURL == URL("", "")

\* the Location header of a response: absent, not parsable, an absolute URL
\* or a path relative to the host of the request
LocationHeader(kind, host, path) == [kind |-> kind, host |-> host, path |-> path]

NoLocation == LocationHeader("none", "", "")

LocationHeaders ==
    {NoLocation,
     LocationHeader("bad", "", ""),
     LocationHeader("abs", "cdn.example.com", "/x"),
     LocationHeader("rel", "", "/y")}

HttpRequest(method, url, header, body) ==
    [method |-> method, url |-> url, header |-> header, body |-> body]

NoHttpRequest == HttpRequest("", NoURL, EmptyMap, FALSE)

\* a response: resp.Request is the request it answers, closed is the state of resp.Body
HttpResponse(status, location, request) ==
    [status |-> status, location |-> location, request |-> request, closed |-> FALSE]

NoHttpResponse == HttpResponse(0, NoLocation, NoHttpRequest)

\* isRedirect
isRedirect(statusCode) ==
    statusCode = 307 \/ statusCode = 301 \/ statusCode = 302 \/ statusCode = 303

\* url.URL.ResolveReference: an absolute reference stands, a path keeps the host of the base
ResolveReference(base, ref) ==
    IF ref.kind = "abs" THEN URL(ref.host, ref.path) ELSE URL(base.host, ref.path)

\* http.Response.Location: ErrNoLocation without the header, else the header
\* parsed and resolved against resp.Request.URL
Location(response) ==
    IF response.location.kind \in {"none", "bad"} THEN [err |-> TRUE, url |-> NoURL]
    ELSE [err |-> FALSE, url |-> ResolveReference(response.request.url, response.location)]

\* http.Header.Add for every value of src
copyHeaders_NoAuthorization(src, dst) ==
    [k \in ((DOMAIN src) \cup (DOMAIN dst)) \ {"Authorization"} |->
        (IF k \in DOMAIN dst THEN dst[k] ELSE <<>>) \o (IF k \in DOMAIN src THEN src[k] ELSE <<>>)]

\* copyHeaders
copyHeaders(src, dst) ==
    [k \in (DOMAIN src) \cup (DOMAIN dst) |->
        (IF k \in DOMAIN dst THEN dst[k] ELSE <<>>) \o (IF k \in DOMAIN src THEN src[k] ELSE <<>>)]

\* http.NewRequestWithContext(ctx, method, url, nil)
NewRequestWithContext(method, url) == HttpRequest(method, url, EmptyMap, FALSE)

\* the locals of RoundTrip, the request issued last and what the upstream answered last
RoundTripState(phase, origReq, req) ==
    [phase |-> phase, origReq |-> origReq, req |-> req, redirects |-> 0,
     resp |-> NoHttpResponse, err |-> FALSE,
     issued |-> NoHttpRequest, upstream |-> NoHttpResponse, received |-> 0,
     returned |-> [resp |-> NoHttpResponse, isNil |-> TRUE, err |-> FALSE]]

Return(state, response, isNil, err) ==
    [state EXCEPT !.phase = "returned",
                  !.returned = [resp |-> response, isNil |-> isNil, err |-> err]]

\* the requests the reverse proxy hands to the transport
Methods == {"GET", "POST"}

Headers ==
    {MapPut(EmptyMap, "Accept", <<"application/json">>),
     MapPut(MapPut(EmptyMap, "Accept", <<"application/json">>), "Authorization", <<"Bearer t">>)}

\* the statuses the upstream answers with
Statuses == {200, 401, 301, 302, 303, 307, 308}

\* RoundTrip is called: origReq := req.Clone(req.Context())
RoundTripCall ==
    /\ rt.phase \in {"idle", "returned"}
    /\ \E method \in Methods, header \in Headers :
          LET req == HttpRequest(method, URL("registry-1.docker.io", "/v2/blob"), header,
                                 method = "POST")
          IN  rt' = RoundTripState("loop", req, req)
    /\ UNCHANGED <<regVars, shutdownVars, caVars, lockVars, proxyVars, tlsVars, adminVars, routerVars, extraVars>>

\* one iteration of the loop whose t.Transport.RoundTrip(req) fails
RoundTripError ==
    /\ rt.phase = "loop"
    /\ rt.redirects < maxRedirects
    /\ rt' = Return([rt EXCEPT !.issued = rt.req, !.err = TRUE], NoHttpResponse, TRUE, TRUE)
    /\ UNCHANGED <<regVars, shutdownVars, caVars, lockVars, proxyVars, tlsVars, adminVars, routerVars, extraVars>>

\* one iteration of the loop whose t.Transport.RoundTrip(req) is answered
RoundTripIteration ==
    /\ rt.phase = "loop"
    /\ rt.redirects < maxRedirects
    /\ \E status \in Statuses, location \in LocationHeaders :
          LET response == HttpResponse(status, location, rt.req)
              location_ == Location(response)
              newReq == NewRequestWithContext(rt.origReq.method, location_.url)
              sent == [rt EXCEPT !.issued = rt.req, !.upstream = response,
                                 !.received = rt.received + 1, !.resp = response]
          IN  /\ ~isRedirect(status) => location = NoLocation
              /\ rt' = IF ~isRedirect(response.status) THEN Return(sent, response, FALSE, FALSE)
                       ELSE IF location_.err THEN Return(sent, response, FALSE, FALSE)
                       ELSE [sent EXCEPT
                               !.resp = [response EXCEPT !.closed = TRUE],
                               !.req = [newReq EXCEPT
                                          !.header = copyHeaders(rt.origReq.header,
                                                                 newReq.header)],
                               !.redirects = rt.redirects + 1]
    /\ UNCHANGED <<regVars, shutdownVars, caVars, lockVars, proxyVars, tlsVars, adminVars, routerVars, extraVars>>

\* the loop has ended: return resp, err
RoundTripExhausted ==
    /\ rt.phase = "loop"
    /\ rt.redirects >= maxRedirects
    /\ rt' = Return(rt, rt.resp, FALSE, rt.err)
    /\ UNCHANGED <<regVars, shutdownVars, caVars, lockVars, proxyVars, tlsVars, adminVars, routerVars, extraVars>>

(***************************************************************************)
(* The router.  A URL path is the sequence strings.Split(path, "/") gives: *)
(* "/v2/a/tags/list" is <<"", "v2", "a", "tags", "list">>, and a trailing   *)
(* slash is a last segment "".                                             *)
(***************************************************************************)
\* strings.HasPrefix(path, "/v2"), for paths whose first segment is "v2" or does not begin with it
HasPrefixV2(path) == Len(path) >= 2 /\ path[1] = "" /\ path[2] = "v2"

\* normalizePathV2: "//" is replaced by "/" until none is left, then the
\* path is made to end with a slash
normalizePathV2(path) ==
    IF ~HasPrefixV2(path) THEN path
    ELSE <<"">> \o SelectSeq(Tail(path), LAMBDA segment : segment # "") \o <<"">>

\* the index the loop over parts leaves for a keyword: the last part equal to
\* it, counted from 1, and 0 for Go's -1
KeywordIndex(parts, keyword) ==
    LET at == {i \in 1..Len(parts) : parts[i] = keyword} IN
    IF at = {} THEN 0 ELSE CHOOSE i \in at : \A j \in at : j <= i

\* what the NoRoute handler does with a request: the handler it calls and the
\* keys it has set on the context, or the status it answers itself
Dispatch(handler, status, repository, reference, digest, uuid) ==
    [handler |-> handler, status |-> status, repository |-> repository,
     reference |-> reference, digest |-> digest, uuid |-> uuid]

NotFound == Dispatch("", 404, <<>>, "", "", "")

\* handleVersionCheck: c.JSON(http.StatusOK, ...), whatever the method
handleVersionCheck == 200

\* the function registered with router.engine.NoRoute, on the normalized path
NoRoute(method, path) ==
    LET parts == SubSeq(path, 3, Len(path))
        manifestsIndex == KeywordIndex(parts, "manifests")
        tagsIndex == KeywordIndex(parts, "tags")
        blobsIndex == KeywordIndex(parts, "blobs")
    IN  IF ~HasPrefixV2(path) THEN NotFound
        ELSE IF path = <<"", "v2", "">> \/ path = <<"", "v2">>
        THEN Dispatch("handleVersionCheck", handleVersionCheck, <<>>, "", "", "")
        ELSE IF path = <<"", "v2", "_catalog">> \/ path = <<"", "v2", "_catalog", "">>
        THEN Dispatch("handleCatalog", 0, <<>>, "", "", "")
        ELSE IF Len(parts) < 2 THEN NotFound
        ELSE IF manifestsIndex > 1 /\ manifestsIndex < Len(parts)
        THEN Dispatch("handleManifests", 0, SubSeq(parts, 1, manifestsIndex - 1),
                      parts[manifestsIndex + 1], "", "")
        ELSE IF tagsIndex > 1 /\ tagsIndex + 1 <= Len(parts) /\ parts[tagsIndex + 1] = "list"
        THEN Dispatch("handleListTags", 0, SubSeq(parts, 1, tagsIndex - 1), "", "", "")
        ELSE IF blobsIndex > 1
        THEN LET repository == SubSeq(parts, 1, blobsIndex - 1) IN
             IF blobsIndex + 1 <= Len(parts) /\ parts[blobsIndex + 1] = "uploads"
             THEN IF (blobsIndex + 2 > Len(parts) \/ parts[blobsIndex + 2] = "")
                     /\ method = "POST"
                  THEN Dispatch("handleInitiateUpload", 0, repository, "", "", "")
                  ELSE IF blobsIndex + 2 <= Len(parts)
                  THEN Dispatch("handleUpload", 0, repository, "", "", parts[blobsIndex + 2])
                  ELSE NotFound
             ELSE IF blobsIndex + 1 <= Len(parts)
             THEN Dispatch("handleBlobs", 0, repository, "", parts[blobsIndex + 1], "")
             ELSE NotFound
        ELSE NotFound

\* Router.ServeHTTP: the middleware normalizes the path, then no route of the
\* engine matches and the NoRoute function runs
ServeHTTP(method, path) == NoRoute(method, normalizePathV2(path))

\* the segments repository names are made of
Segments == {"acme", "widget", "tags"}

RECURSIVE NamesOfLength(_)
NamesOfLength(n) ==
    IF n = 0 THEN {<<>>}
    ELSE {<<segment>> \o name : segment \in Segments, name \in NamesOfLength(n - 1)}

\* repository names of one to MaxSegments segments
RepositoryNames == UNION {NamesOfLength(n) : n \in 1..MaxSegments}

References == {"latest", "manifests", "blobs", "sha256:1"}

RouterMethods == {"GET", "POST", "PUT"}

\* the request the client sent and how it was dispatched
Routed(method, name, route, argument, path) ==
    [method |-> method, name |-> name, route |-> route, argument |-> argument,
     path |-> path, dispatch |-> ServeHTTP(method, path)]

\* "/v2/" + name
V2Path(name) == <<"", "v2">> \o name

\* a request for /v2/<name>/manifests/<reference>
RouteManifests ==
    \E method \in RouterMethods, name \in RepositoryNames, reference \in References :
        /\ routed' = Routed(method, name, "manifests", reference,
                            V2Path(name) \o <<"manifests", reference>>)
        /\ UNCHANGED <<regVars, shutdownVars, caVars, lockVars, proxyVars, tlsVars, adminVars, transportVars, extraVars>>

\* a request for /v2/<name>/tags/list
RouteTagsList ==
    \E method \in RouterMethods, name \in RepositoryNames :
        /\ routed' = Routed(method, name, "tags", "list",
                            V2Path(name) \o <<"tags", "list">>)
        /\ UNCHANGED <<regVars, shutdownVars, caVars, lockVars, proxyVars, tlsVars, adminVars, transportVars, extraVars>>

\* a request for /v2/<name>/blobs/<digest>
RouteBlobs ==
    \E method \in RouterMethods, name \in RepositoryNames :
        /\ routed' = Routed(method, name, "blobs", "sha256:1",
                            V2Path(name) \o <<"blobs", "sha256:1">>)
        /\ UNCHANGED <<regVars, shutdownVars, caVars, lockVars, proxyVars, tlsVars, adminVars, transportVars, extraVars>>

\* a request for /v2/<name>/blobs/uploads/
RouteUploads ==
    \E method \in RouterMethods, name \in RepositoryNames :
        /\ routed' = Routed(method, name, "uploads", "",
                            V2Path(name) \o <<"blobs", "uploads", "">>)
        /\ UNCHANGED <<regVars, shutdownVars, caVars, lockVars, proxyVars, tlsVars, adminVars, transportVars, extraVars>>

\* a request for /v2/<name>/blobs/uploads/<uuid>
RouteUpload ==
    \E method \in RouterMethods, name \in RepositoryNames :
        /\ routed' = Routed(method, name, "upload", "u1",
                            V2Path(name) \o <<"blobs", "uploads", "u1">>)
        /\ UNCHANGED <<regVars, shutdownVars, caVars, lockVars, proxyVars, tlsVars, adminVars, transportVars, extraVars>>

\* the segments after the name in a path of the shape of a route
RouteShape(route, reference) ==
    CASE route = "manifests" -> <<"manifests", reference>>
      [] route = "tags" -> <<"tags", "list">>
      [] route = "blobs" -> <<"blobs", reference>>

\* a request for the path of a route followed by one more segment, e.g.
\* /v2/<name>/tags/list/extra
RouteExtra ==
    \E route \in {"manifests", "tags", "blobs"}, name \in RepositoryNames :
        /\ routed' = Routed("GET", name, "extra", route,
                            V2Path(name) \o RouteShape(route, "sha256:1") \o <<"extra">>)
        /\ UNCHANGED <<regVars, shutdownVars, caVars, lockVars, proxyVars, tlsVars, adminVars, transportVars, extraVars>>

\* a request for another path: the version check, the catalog, a path with a
\* doubled slash, a path outside /v2
RouteOther ==
    \E method \in RouterMethods,
       path \in {<<"", "v2">>, <<"", "v2", "">>, <<"", "v2", "_catalog">>,
                 <<"", "v2", "acme">>, <<"", "v2", "non-existent">>,
                 <<"", "v1", "acme", "tags", "list">>,
                 <<"", "v2", "", "acme", "tags", "list">>,
                 <<"", "", "v2", "acme", "tags", "list">>} :
        /\ routed' = Routed(method, <<>>, "", "", path)
        /\ UNCHANGED <<regVars, shutdownVars, caVars, lockVars, proxyVars, tlsVars, adminVars, transportVars, extraVars>>

(***************************************************************************)
(* Shutdown of cmd/proxy: main starts the proxy listener and, with          *)
(* -admin-api, the admin listener, starts the signal goroutine and blocks   *)
(* on ctx.Done(); the process is gone when main returns.                    *)
(***************************************************************************)
Listeners == {"proxy", "admin"}

\* []*http.Server{proxyServer, adminServer}
Servers == <<"proxy", "admin">>

HandlerIds == 1..MaxHandlers

SignalAt(at, i) == [at |-> at, i |-> i]

\* the requests a listener's handlers are serving
Running(l) == {h \in HandlerIds : requests[l][h] = "running"}

\* a Shutdown that returns when its context expires, handlers running or not
ShutdownIdle_Deadline(l) == TRUE

\* server.Shutdown(context.Background()) returns: every connection is idle
ShutdownIdle(l) == Running(l) = {}

\* StartServer, StartAdminServer when *adminAPI, handleSignals, <-ctx.Done()
StartServers(adminAPI) ==
    /\ mainPc = "starting"
    /\ mainPc' = "serving"
    /\ listening' = [l \in Listeners |-> l = "proxy" \/ adminAPI]
    /\ watcher' = [l \in Listeners |-> IF l = "proxy" \/ adminAPI THEN "waitctx" ELSE "nil"]
    /\ UNCHANGED <<sigPc, ctxDone, requests, atTrigger>>
    /\ UNCHANGED <<regVars, proxyVars, tlsVars, adminVars, transportVars, routerVars,
                   caVars, lockVars, extraVars>>

\* a listener accepts a request and its handler starts
Accept(l, h) ==
    /\ mainPc = "serving"
    /\ listening[l]
    /\ requests[l][h] = "none"
    /\ requests' = [requests EXCEPT ![l][h] = "running"]
    /\ UNCHANGED <<mainPc, sigPc, ctxDone, listening, watcher, atTrigger>>
    /\ UNCHANGED <<regVars, proxyVars, tlsVars, adminVars, transportVars, routerVars,
                   caVars, lockVars, extraVars>>

\* a handler returns
Complete(l, h) ==
    /\ mainPc # "exited"
    /\ requests[l][h] = "running"
    /\ requests' = [requests EXCEPT ![l][h] = "completed"]
    /\ UNCHANGED <<mainPc, sigPc, ctxDone, listening, watcher, atTrigger>>
    /\ UNCHANGED <<regVars, proxyVars, tlsVars, adminVars, transportVars, routerVars,
                   caVars, lockVars, extraVars>>

\* sig := <-sigChan
Signal ==
    /\ mainPc = "serving"
    /\ sigPc = SignalAt("wait", 0)
    /\ sigPc' = SignalAt("range", 1)
    /\ atTrigger' = {<<l, h>> \in Listeners \X HandlerIds : h \in Running(l)}
    /\ UNCHANGED <<mainPc, ctxDone, listening, watcher, requests>>
    /\ UNCHANGED <<regVars, proxyVars, tlsVars, adminVars, transportVars, routerVars,
                   caVars, lockVars, extraVars>>

\* for _, server := range servers: a nil server is skipped, Shutdown of the
\* others first closes the listener
SignalShutdownBegin ==
    /\ mainPc # "exited"
    /\ sigPc.at = "range" /\ sigPc.i <= Len(Servers)
    /\ IF watcher[Servers[sigPc.i]] = "nil"
       THEN /\ sigPc' = SignalAt("range", sigPc.i + 1)
            /\ UNCHANGED listening
       ELSE /\ sigPc' = SignalAt("Shutdown", sigPc.i)
            /\ listening' = [listening EXCEPT ![Servers[sigPc.i]] = FALSE]
    /\ UNCHANGED <<mainPc, ctxDone, watcher, requests, atTrigger>>
    /\ UNCHANGED <<regVars, proxyVars, tlsVars, adminVars, transportVars, routerVars,
                   caVars, lockVars, extraVars>>

\* server.Shutdown(context.Background()) returns
SignalShutdownReturn ==
    /\ mainPc # "exited"
    /\ sigPc.at = "Shutdown"
    /\ ShutdownIdle(Servers[sigPc.i])
    /\ sigPc' = SignalAt("range", sigPc.i + 1)
    /\ UNCHANGED <<mainPc, ctxDone, listening, watcher, requests, atTrigger>>
    /\ UNCHANGED <<regVars, proxyVars, tlsVars, adminVars, transportVars, routerVars,
                   caVars, lockVars, extraVars>>

\* cancel() after the loop
SignalCancel ==
    /\ mainPc # "exited"
    /\ sigPc.at = "range" /\ sigPc.i > Len(Servers)
    /\ sigPc' = SignalAt("done", 0)
    /\ ctxDone' = TRUE
    /\ UNCHANGED <<mainPc, listening, watcher, requests, atTrigger>>
    /\ UNCHANGED <<regVars, proxyVars, tlsVars, adminVars, transportVars, routerVars,
                   caVars, lockVars, extraVars>>

\* the goroutine StartServerWithOptions starts: <-ctx.Done(), then Shutdown
\* with a context of five seconds closes the listener
WatcherShutdown(l) ==
    /\ mainPc # "exited"
    /\ watcher[l] = "waitctx" /\ ctxDone
    /\ watcher' = [watcher EXCEPT ![l] = "Shutdown"]
    /\ listening' = [listening EXCEPT ![l] = FALSE]
    /\ UNCHANGED <<mainPc, sigPc, ctxDone, requests, atTrigger>>
    /\ UNCHANGED <<regVars, proxyVars, tlsVars, adminVars, transportVars, routerVars,
                   caVars, lockVars, extraVars>>

\* that Shutdown returns: the connections are idle or the five seconds passed
WatcherReturn(l) ==
    /\ mainPc # "exited"
    /\ watcher[l] = "Shutdown"
    /\ watcher' = [watcher EXCEPT ![l] = "done"]
    /\ UNCHANGED <<mainPc, sigPc, ctxDone, listening, requests, atTrigger>>
    /\ UNCHANGED <<regVars, proxyVars, tlsVars, adminVars, transportVars, routerVars,
                   caVars, lockVars, extraVars>>

\* <-ctx.Done() returns and main returns: the process exits, and a handler
\* that is still running is cut off
MainExit ==
    /\ mainPc = "serving" /\ ctxDone
    /\ mainPc' = "exited"
    /\ requests' = [l \in Listeners |-> [h \in HandlerIds |->
                        IF requests[l][h] = "running" THEN "cutoff" ELSE requests[l][h]]]
    /\ UNCHANGED <<sigPc, ctxDone, listening, watcher, atTrigger>>
    /\ UNCHANGED <<regVars, proxyVars, tlsVars, adminVars, transportVars, routerVars,
                   caVars, lockVars, extraVars>>

\* main has parsed its flags; no listener is started yet
ShutdownInit ==
    /\ mainPc = "starting"
    /\ sigPc = SignalAt("wait", 0)
    /\ ctxDone = FALSE
    /\ listening = [l \in Listeners |-> FALSE]
    /\ watcher = [l \in Listeners |-> "nil"]
    /\ requests = [l \in Listeners |-> [h \in HandlerIds |-> "none"]]
    /\ atTrigger = {}

\* GetManager: ensureCA has run at startup over a clean temporary directory
CAInit == ca = CAState(StartupCA, StartupCA, StartupCA, {}, 0)

(***************************************************************************)
(* The sync.RWMutex of one content store (MemoryStorage.mutex,             *)
(* FileStorage.mutex) and the store calls that take it.  A writer that has *)
(* called Lock blocks every RLock that comes after it, until it has held   *)
(* and released the lock.                                                  *)
(***************************************************************************)
StoreCallers == {"c1", "c2"}

ReadCalls == {"GetManifest", "GetManifestByDigest", "GetBlob", "ListTags"}

WriteCalls == {"PutManifest", "DeleteManifest", "AppendToUpload", "CompleteUpload"}

\* a goroutine in a store call: nested tells whether GetManifest goes on to
\* call GetManifestByDigest (the reference is a digest or a tag that exists)
StoreCall(name, nested, at) == [name |-> name, nested |-> nested, at |-> at]

NoCall == StoreCall("", FALSE, "idle")

\* RLock does not block: no writer holds the lock or waits for it
CanRLock == rw.writer = "" /\ rw.waiting = {}

\* a goroutine enters a store call
Call(g, name, nested) ==
    /\ calls[g] = NoCall
    /\ rw.started < MaxCalls
    /\ nested => name = "GetManifest"
    /\ calls' = [calls EXCEPT ![g] = StoreCall(name, nested,
                                               IF name \in ReadCalls THEN "RLock" ELSE "Lock")]
    /\ rw' = [rw EXCEPT !.started = @ + 1]
    /\ UNCHANGED <<regVars, proxyVars, tlsVars, adminVars, transportVars, routerVars,
                   shutdownVars, caVars, extraVars>>

\* s.mutex.RLock() at the top of a read call; GetManifest then reads the tag
RLock(g) ==
    /\ calls[g].at = "RLock"
    /\ CanRLock
    /\ rw' = [rw EXCEPT !.readers = @ + 1]
    /\ calls' = [calls EXCEPT ![g].at = IF calls[g].nested THEN "GetManifestByDigest"
                                        ELSE "RUnlock"]
    /\ UNCHANGED <<regVars, proxyVars, tlsVars, adminVars, transportVars, routerVars,
                   shutdownVars, caVars, extraVars>>

\* GetManifest calls s.GetManifestByDigest, which takes s.mutex.RLock() again
NestedRLock(g) ==
    /\ calls[g].at = "GetManifestByDigest"
    /\ CanRLock
    /\ rw' = [rw EXCEPT !.readers = @ + 1]
    /\ calls' = [calls EXCEPT ![g].at = "nested_RUnlock"]
    /\ UNCHANGED <<regVars, proxyVars, tlsVars, adminVars, transportVars, routerVars,
                   shutdownVars, caVars, extraVars>>

\* the deferred RUnlock of the inner GetManifestByDigest
NestedRUnlock(g) ==
    /\ calls[g].at = "nested_RUnlock"
    /\ rw' = [rw EXCEPT !.readers = @ - 1]
    /\ calls' = [calls EXCEPT ![g].at = "RUnlock"]
    /\ UNCHANGED <<regVars, proxyVars, tlsVars, adminVars, transportVars, routerVars,
                   shutdownVars, caVars, extraVars>>

\* the deferred RUnlock of a read call: the call returns
RUnlock(g) ==
    /\ calls[g].at = "RUnlock"
    /\ rw' = [rw EXCEPT !.readers = @ - 1]
    /\ calls' = [calls EXCEPT ![g] = NoCall]
    /\ UNCHANGED <<regVars, proxyVars, tlsVars, adminVars, transportVars, routerVars,
                   shutdownVars, caVars, extraVars>>

\* s.mutex.Lock() is called: from now on new readers block
LockBegin(g) ==
    /\ calls[g].at = "Lock"
    /\ rw' = [rw EXCEPT !.waiting = @ \cup {g}]
    /\ calls' = [calls EXCEPT ![g].at = "Lock_wait"]
    /\ UNCHANGED <<regVars, proxyVars, tlsVars, adminVars, transportVars, routerVars,
                   shutdownVars, caVars, extraVars>>

\* s.mutex.Lock() returns: the readers have left and no writer holds the lock
LockAcquire(g) ==
    /\ calls[g].at = "Lock_wait"
    /\ rw.readers = 0 /\ rw.writer = ""
    /\ rw' = [rw EXCEPT !.waiting = @ \ {g}, !.writer = g]
    /\ calls' = [calls EXCEPT ![g].at = "Unlock"]
    /\ UNCHANGED <<regVars, proxyVars, tlsVars, adminVars, transportVars, routerVars,
                   shutdownVars, caVars, extraVars>>

\* the deferred Unlock of a write call: the call returns
Unlock(g) ==
    /\ calls[g].at = "Unlock"
    /\ rw' = [rw EXCEPT !.writer = ""]
    /\ calls' = [calls EXCEPT ![g] = NoCall]
    /\ UNCHANGED <<regVars, proxyVars, tlsVars, adminVars, transportVars, routerVars,
                   shutdownVars, caVars, extraVars>>

\* a new store: the zero RWMutex, no goroutine in a call
LockInit ==
    /\ rw = [readers |-> 0, writer |-> "", waiting |-> {}, started |-> 0]
    /\ calls = [g \in StoreCallers |-> NoCall]

(***************************************************************************)
(* The file variant of the config store called from several goroutines     *)
(* (the admin API serves each request on its own goroutine).  The map is    *)
(* guarded by the mutex of MemoryConfigStore; saveToFile holds no lock of   *)
(* its own, so one action is one locked call on the map (Add, Remove, List, *)
(* Get) or the write of the file.                                           *)
(***************************************************************************)
FileCallers == {"a1", "a2"}

FileCall(at, kind, host, todo, full) ==
    [at |-> at, kind |-> kind, host |-> host, todo |-> todo, full |-> full]

NoFileCall == FileCall("idle", "", "", {}, EmptyMap)

\* what the file holds when it holds the mappings cs
Persisted(cs) == FileOf(TRUE, TRUE, [h \in DOMAIN cs |-> JsonConfig(cs[h])])

\* FileConfigStore.Add: s.MemoryConfigStore.Add(config)
FsAdd(g, config) ==
    /\ fs.calls[g].at = "idle"
    /\ fs.n < MaxFileCalls
    /\ fs' = [fs EXCEPT !.configs = MemoryConfigStore_Add(fs.configs, config),
                        !.n = @ + 1,
                        !.calls[g] = FileCall("List", "Add", config.HostName, {}, EmptyMap)]
    /\ UNCHANGED <<regVars, proxyVars, tlsVars, adminVars, transportVars, routerVars,
                   shutdownVars, caVars, lockVars, mint, fwd>>

\* FileConfigStore.Remove: s.MemoryConfigStore.Remove(hostName); (false, nil)
\* when there was nothing to remove
FsRemove(g, hostName) ==
    LET r == MemoryConfigStore_Remove(fs.configs, hostName) IN
    /\ fs.calls[g].at = "idle"
    /\ fs.n < MaxFileCalls
    /\ fs' = [fs EXCEPT !.configs = r.configs,
                        !.n = @ + 1,
                        !.calls[g] = IF r.removed
                                     THEN FileCall("List", "Remove", hostName, {}, EmptyMap)
                                     ELSE NoFileCall]
    /\ UNCHANGED <<regVars, proxyVars, tlsVars, adminVars, transportVars, routerVars,
                   shutdownVars, caVars, lockVars, mint, fwd>>

\* saveToFile: s.MemoryConfigStore.List()
FsList(g) ==
    /\ fs.calls[g].at = "List"
    /\ fs' = [fs EXCEPT !.calls[g] =
                 [@ EXCEPT !.at = "Get",
                           !.todo = {c.HostName : c \in MemoryConfigStore_List(fs.configs)}]]
    /\ UNCHANGED <<regVars, proxyVars, tlsVars, adminVars, transportVars, routerVars,
                   shutdownVars, caVars, lockVars, mint, fwd>>

\* saveToFile: s.MemoryConfigStore.Get(config.HostName) for the next listed
\* mapping (the list is in map order); a mapping that no longer exists is left out
FsGet(g) ==
    /\ fs.calls[g].at = "Get"
    /\ fs.calls[g].todo # {}
    /\ \E h \in fs.calls[g].todo :
        LET r == MemoryConfigStore_Get(fs.configs, h) IN
        fs' = [fs EXCEPT !.calls[g] =
                  [@ EXCEPT !.todo = @ \ {h},
                            !.full = IF r.ok THEN MapPut(@, h, JsonConfig(r.config)) ELSE @]]
    /\ UNCHANGED <<regVars, proxyVars, tlsVars, adminVars, transportVars, routerVars,
                   shutdownVars, caVars, lockVars, mint, fwd>>

\* saveToFile: json.MarshalIndent(fullConfigs), os.MkdirAll, ioutil.WriteFile;
\* Add and Remove return its error
FsWrite(g, w) ==
    /\ fs.calls[g].at = "Get"
    /\ fs.calls[g].todo = {}
    /\ fs' = [fs EXCEPT !.file = CASE w = "ok" -> FileOf(TRUE, TRUE, fs.calls[g].full)
                                   [] w = "denied" -> @
                                   [] w = "partial" -> FileOf(TRUE, FALSE, EmptyMap),
                        !.calls[g] = NoFileCall,
                        !.failed = @ \/ w # "ok"]
    /\ UNCHANGED <<regVars, proxyVars, tlsVars, adminVars, transportVars, routerVars,
                   shutdownVars, caVars, lockVars, mint, fwd>>

\* NewManager over a file store with no file: loadDefaultConfigs has added the
\* default mappings, each Add saving the file
FileStoreInit ==
    LET cs == [h \in {c.HostName : c \in DefaultConfigs} |->
                  CHOOSE c \in DefaultConfigs : c.HostName = h]
    IN  fs = [configs |-> cs, file |-> Persisted(cs),
              calls |-> [g \in FileCallers |-> NoFileCall], n |-> 0, failed |-> FALSE]

(***************************************************************************)
(* GetOrCreateCert called by several TLS handshakes for one server name.   *)
(* generateServerCert writes the certificate and the key to two files      *)
(* named after the host and reads them back with tls.LoadX509KeyPair; a    *)
(* key pair is a number, a certificate carries the number of its public    *)
(* key.  One action is one sync.Map call or one file operation.            *)
(***************************************************************************)
MintCallers == {"h1", "h2"}

\* a *tls.Certificate: the public key of the leaf and the private key held with it
KeyPair(pub, priv) == [pub |-> pub, priv |-> priv]

NoKeyPair == KeyPair(0, 0)

MintCall(at, key, cert, err) == [at |-> at, key |-> key, cert |-> cert, err |-> err]

\* tls.LoadX509KeyPair: "private key does not match public key" unless the
\* key file holds the key of the certificate in the certificate file
LoadX509KeyPair(files) ==
    IF files.cert = files.key
    THEN [cert |-> KeyPair(files.cert, files.key), err |-> ""]
    ELSE [cert |-> NoKeyPair, err |-> "failed to load server certificate"]

\* GetOrCreateCert: m.certCache.Load(hostName); a hit is returned
MintLoad(g) ==
    /\ mint.calls[g].at \in {"idle", "returned"}
    /\ mint.n < MaxMints
    /\ mint' = [mint EXCEPT !.n = @ + 1,
                            !.calls[g] = IF mint.cache # NoKeyPair
                                         THEN MintCall("returned", 0, mint.cache, "")
                                         ELSE MintCall("GenerateKey", 0, NoKeyPair, "")]
    /\ UNCHANGED <<regVars, proxyVars, tlsVars, adminVars, transportVars, routerVars,
                   shutdownVars, caVars, lockVars, fs, fwd>>

\* generateServerCert: rsa.GenerateKey, x509.CreateCertificate over its public key
MintGenerateKey(g) ==
    /\ mint.calls[g].at = "GenerateKey"
    /\ mint' = [mint EXCEPT !.minted = @ + 1,
                            !.calls[g] = [@ EXCEPT !.at = "SaveCert", !.key = mint.minted + 1]]
    /\ UNCHANGED <<regVars, proxyVars, tlsVars, adminVars, transportVars, routerVars,
                   shutdownVars, caVars, lockVars, fs, fwd>>

\* generateServerCert: m.savePEM(certFile, "CERTIFICATE", serverBytes)
MintSaveCert(g) ==
    /\ mint.calls[g].at = "SaveCert"
    /\ mint' = [mint EXCEPT !.files.cert = mint.calls[g].key,
                            !.calls[g].at = "SaveKey"]
    /\ UNCHANGED <<regVars, proxyVars, tlsVars, adminVars, transportVars, routerVars,
                   shutdownVars, caVars, lockVars, fs, fwd>>

\* generateServerCert: m.savePEM(keyFile, "RSA PRIVATE KEY", ...)
MintSaveKey(g) ==
    /\ mint.calls[g].at = "SaveKey"
    /\ mint' = [mint EXCEPT !.files.key = mint.calls[g].key,
                            !.calls[g].at = "LoadPair"]
    /\ UNCHANGED <<regVars, proxyVars, tlsVars, adminVars, transportVars, routerVars,
                   shutdownVars, caVars, lockVars, fs, fwd>>

\* generateServerCert: tls.LoadX509KeyPair(certFile, keyFile); GetOrCreateCert
\* returns its error, or goes on to Store
MintLoaded(g) ==
    LET r == LoadX509KeyPair(mint.files) IN
    /\ mint.calls[g].at = "LoadPair"
    /\ mint' = [mint EXCEPT !.calls[g] =
                   IF r.err # "" THEN MintCall("returned", 0, NoKeyPair, r.err)
                   ELSE [@ EXCEPT !.at = "Store", !.cert = r.cert]]
    /\ UNCHANGED <<regVars, proxyVars, tlsVars, adminVars, transportVars, routerVars,
                   shutdownVars, caVars, lockVars, fs, fwd>>

\* GetOrCreateCert: m.certCache.Store(hostName, cert); return cert, nil
MintStore(g) ==
    /\ mint.calls[g].at = "Store"
    /\ mint' = [mint EXCEPT !.cache = mint.calls[g].cert,
                            !.calls[g] = MintCall("returned", 0, mint.calls[g].cert, "")]
    /\ UNCHANGED <<regVars, proxyVars, tlsVars, adminVars, transportVars, routerVars,
                   shutdownVars, caVars, lockVars, fs, fwd>>

\* GetManager: an empty certCache; no leaf files of the host yet
MintInit ==
    mint = [files |-> [cert |-> 0, key |-> 0], cache |-> NoKeyPair, minted |-> 0, n |-> 0,
            calls |-> [g \in MintCallers |-> MintCall("idle", 0, NoKeyPair, "")]]

(***************************************************************************)
(* The Director of the reverse proxy NewRegistryProxyHandler builds.  An   *)
(* Authorization header value is the record of its scheme and of what its  *)
(* payload decodes to; the reverse proxy copies the inbound headers to the *)
(* outbound request before the Director runs.                              *)
(***************************************************************************)
Authorization(scheme, decodes, username, password) ==
    [scheme |-> scheme, decodes |-> decodes, username |-> username, password |-> password]

\* no Authorization header
NoAuthorization == Authorization("", FALSE, "", "")

\* "Basic " followed by the base64 of username:password
BasicValue(username, password) == Authorization("Basic", TRUE, username, password)

\* the headers clients send: none, Basic credentials, a Basic payload that is
\* not base64 of user:password, Bearer tokens
ClientAuthorizations ==
    {NoAuthorization,
     BasicValue("alice", "pw"), BasicValue("bot", "s3cret"), BasicValue("", ""),
     Authorization("Basic", FALSE, "", ""),
     Authorization("Bearer", FALSE, "token-1", ""),
     Authorization("Bearer", FALSE, "token-2", "")}

\* the mappings a handler is built from: with and without credentials
DirectorConfigs ==
    {Credentials(Config(h, u, "", NilNames), n, p) :
        h \in {"docker.io", "gcr.io"}, u \in {"https://mirror.example", "https://gcr.io"},
        n \in {"", "bot"}, p \in {"", "s3cret"}}

\* (*http.Request).BasicAuth: ok only for the Basic scheme with a payload that
\* decodes to user:password
BasicAuth(auth) ==
    IF auth.scheme = "Basic" /\ auth.decodes
    THEN [username |-> auth.username, password |-> auth.password, ok |-> TRUE]
    ELSE [username |-> "", password |-> "", ok |-> FALSE]

\* proxy.Director: originalDirector(req), req.Host = remoteURL.Host, and
\* req.SetBasicAuth(config.Username, config.Password) when both are set and
\* req.BasicAuth() is not ok
Director(config, req) ==
    [host |-> config.RemoteURL,
     authorization |-> IF config.Username # "" /\ config.Password # ""
                          /\ ~BasicAuth(req.authorization).ok
                       THEN BasicValue(config.Username, config.Password)
                       ELSE req.authorization]

NotForwarded ==
    [called |-> FALSE, config |-> ZeroConfig,
     inbound |-> [host |-> "", authorization |-> NoAuthorization],
     outbound |-> [host |-> "", authorization |-> NoAuthorization]]

\* the handler built from config forwards one request of a client
Forward ==
    /\ \E config \in DirectorConfigs, auth \in ClientAuthorizations :
         LET req == [host |-> config.HostName, authorization |-> auth] IN
         fwd' = [called |-> TRUE, config |-> config, inbound |-> req,
                 outbound |-> Director(config, req)]
    /\ UNCHANGED <<regVars, proxyVars, tlsVars, adminVars, transportVars, routerVars,
                   shutdownVars, caVars, lockVars, fs, mint>>

DirectorInit == fwd = NotForwarded

\* NewManager over a new MemoryConfigStore: loadDefaultConfigs has run
ProxyInit ==
    /\ configs = [h \in {c.HostName : c \in DefaultConfigs} |->
                     CHOOSE c \in DefaultConfigs : c.HostName = h]
    /\ proxyHandlers = EmptyMap
    /\ pc = [g \in Goroutines |-> "idle"]
    /\ op = [g \in Goroutines |-> Operation("", "")]
    /\ nops = 0

\* cert.GetManager: nothing minted yet
TLSInit ==
    /\ certCache = EmptyMap
    /\ seen = {}

RegInit ==
    /\ stores = [v \in Variants |-> IF v = "memory" THEN NewMemoryStorage ELSE NewFileStorage]
    /\ lastReq = NoRequest
    /\ resp = [v \in Variants |-> Response(0)]
    /\ patchLog = [v \in Variants |-> EmptyMap]
    /\ putLog = [v \in Variants |-> {}]
    /\ finalized = [v \in Variants |-> {}]
    /\ nreq = 0

\* no RoundTrip has been called yet
TransportInit == rt = RoundTripState("idle", NoHttpRequest, NoHttpRequest)

\* NewRouter: no request routed yet
RouterInit == routed = Routed("", <<>>, "", "", <<>>)

\* the process is up over a memory config store, no admin request served yet
AdminUp ==
    /\ running = TRUE
    /\ storeKind = "memory"
    /\ apiPrefix = <<"", "api", "v1">>
    /\ configFile = NoFile
    /\ adminReq = NoAdminRequest
    /\ adminResp = AdminResponse(0)
    /\ nadmin = 0

Init ==
    /\ RegInit /\ ProxyInit /\ TLSInit /\ AdminUp /\ TransportInit /\ RouterInit
    /\ ShutdownInit /\ CAInit /\ LockInit /\ FileStoreInit /\ MintInit /\ DirectorInit

\* before main runs: the flags and the config file are the operator's
AdminDown ==
    /\ running = FALSE
    /\ storeKind \in {"memory", "file"}
    /\ apiPrefix \in ApiPrefixes
    /\ configFile \in IF storeKind = "file" THEN InitialFiles ELSE {NoFile}
    /\ adminReq = NoAdminRequest
    /\ adminResp = AdminResponse(0)
    /\ nadmin = 0
    /\ configs = EmptyMap
    /\ proxyHandlers = EmptyMap
    /\ pc = [g \in Goroutines |-> "idle"]
    /\ op = [g \in Goroutines |-> Operation("", "")]
    /\ nops = 0

Next ==
    \/ Catalog
    \/ TagsList
    \/ HeadManifest
    \/ GetManifestReq
    \/ PutManifestReq
    \/ DeleteManifestReq
    \/ HeadBlob
    \/ GetBlobReq
    \/ DeleteBlobReq
    \/ PostUpload
    \/ PatchUpload
    \/ PutUpload
    \/ OtherMethod
    \/ DeleteUpload

Spec == Init /\ [][Next]_vars

\* the manifest endpoints alone, fed documents of every shape
ManifestNext == PutDocument \/ HeadManifest \/ GetManifestReq

ManifestSpec == Init /\ [][ManifestNext]_vars

GatewayNext ==
    \/ \E g \in Goroutines, config \in AddInputs : AddConfigStore(g, config)
    \/ \E g \in Goroutines : AddConfigDelete(g)
    \/ \E g \in Goroutines, hostName \in Hosts : RemoveConfigStore(g, hostName)
    \/ \E g \in Goroutines : RemoveConfigDelete(g)
    \/ \E g \in Goroutines, host \in Hosts : ProxyGetConfig(g, host)
    \/ \E g \in Goroutines : DefaultGetDocker(g)
    \/ \E g \in Goroutines : DefaultList(g)
    \/ \E g \in Goroutines : DefaultGetFirst(g)
    \/ \E g \in Goroutines : ProxyLoad(g)
    \/ \E g \in Goroutines : ProxyStore(g)
    \/ \E g \in Goroutines, serverName \in Hosts, certFiles \in BOOLEAN :
          HelloGetConfig(g, serverName, certFiles)
    \/ \E g \in Goroutines : CertLoad(g)
    \/ \E g \in Goroutines : CertStore(g)

GatewaySpec == Init /\ [][GatewayNext]_vars

AdminNext ==
    \/ Startup
    \/ Shutdown
    \/ AdminList
    \/ AdminPost
    \/ AdminGet
    \/ AdminPut
    \/ AdminDelete

TransportNext ==
    \/ RoundTripCall
    \/ RoundTripError
    \/ RoundTripIteration
    \/ RoundTripExhausted

TransportSpec == Init /\ [][TransportNext]_vars

RouterNext ==
    \/ RouteManifests
    \/ RouteTagsList
    \/ RouteBlobs
    \/ RouteUploads
    \/ RouteUpload
    \/ RouteExtra
    \/ RouteOther

RouterSpec == Init /\ [][RouterNext]_vars

AdminInit ==
    /\ AdminDown /\ RegInit /\ TLSInit /\ TransportInit /\ RouterInit
    /\ ShutdownInit /\ CAInit /\ LockInit /\ FileStoreInit /\ MintInit /\ DirectorInit

AdminSpec == AdminInit /\ [][AdminNext]_vars

CacheNext ==
    \/ Startup
    \/ AdminPost
    \/ AdminDelete
    \/ ProxyRequest

CacheSpec == AdminInit /\ [][CacheNext]_vars

CertNext ==
    \/ \E g \in Goroutines, serverName \in Hosts, certFiles \in BOOLEAN :
          HelloGetConfig(g, serverName, certFiles)
    \/ \E g \in Goroutines : CertLoad(g)
    \/ \E g \in Goroutines : CertStore(g)
    \/ CAFilesRemoved
    \/ CAFilesReplaced

CertSpec == Init /\ [][CertNext]_vars

LockNext ==
    \/ \E g \in StoreCallers, name \in ReadCalls \cup WriteCalls, nested \in BOOLEAN :
          Call(g, name, nested)
    \/ \E g \in StoreCallers : RLock(g)
    \/ \E g \in StoreCallers : NestedRLock(g)
    \/ \E g \in StoreCallers : NestedRUnlock(g)
    \/ \E g \in StoreCallers : RUnlock(g)
    \/ \E g \in StoreCallers : LockBegin(g)
    \/ \E g \in StoreCallers : LockAcquire(g)
    \/ \E g \in StoreCallers : Unlock(g)

LockSpec == Init /\ [][LockNext]_vars

\* the Go scheduler runs every goroutine that is not blocked: a step that
\* stays possible is taken
LockFairSpec == LockSpec /\ WF_vars(LockNext)

FileStoreNext ==
    \/ \E g \in FileCallers, config \in AddInputs : FsAdd(g, config)
    \/ \E g \in FileCallers, hostName \in Hosts : FsRemove(g, hostName)
    \/ \E g \in FileCallers : FsList(g)
    \/ \E g \in FileCallers : FsGet(g)
    \/ \E g \in FileCallers, w \in WriteOutcomes : FsWrite(g, w)

FileStoreSpec == Init /\ [][FileStoreNext]_vars

MintNext ==
    \/ \E g \in MintCallers : MintLoad(g)
    \/ \E g \in MintCallers : MintGenerateKey(g)
    \/ \E g \in MintCallers : MintSaveCert(g)
    \/ \E g \in MintCallers : MintSaveKey(g)
    \/ \E g \in MintCallers : MintLoaded(g)
    \/ \E g \in MintCallers : MintStore(g)

MintSpec == Init /\ [][MintNext]_vars

DirectorNext == Forward

DirectorSpec == Init /\ [][DirectorNext]_vars

ShutdownNext ==
    \/ \E adminAPI \in BOOLEAN : StartServers(adminAPI)
    \/ \E l \in Listeners, h \in HandlerIds : Accept(l, h)
    \/ \E l \in Listeners, h \in HandlerIds : Complete(l, h)
    \/ Signal
    \/ SignalShutdownBegin
    \/ SignalShutdownReturn
    \/ SignalCancel
    \/ \E l \in Listeners : WatcherShutdown(l)
    \/ \E l \in Listeners : WatcherReturn(l)
    \/ MainExit

ShutdownSpec == Init /\ [][ShutdownNext]_vars

(***************************************************************************)
(* Properties of the V2 engine.                                            *)
(***************************************************************************)
\* the bytes an upload session has accumulated in store s
UploadBytes(s, repository, uploadID) ==
    IF s.kind = "memory" THEN s.uploads[repository][uploadID]
    ELSE s.uploads[<<repository, uploadID>>]

\* the digests under which store s holds a blob of the repository
BlobsOf(s, repository) ==
    IF s.kind = "memory"
    THEN IF repository \in DOMAIN s.repositories
         THEN DOMAIN s.repositories[repository].Blobs ELSE {}
    ELSE {k[2] : k \in {x \in DOMAIN s.blobs : x[1] = repository}}

\* the step serves a finalizing PUT on a session that is open in variant v
FinalizeStep(v) ==
    /\ nreq' = nreq + 1
    /\ lastReq'.route = "upload" /\ lastReq'.method = "PUT"
    /\ lastReq'.reference # EmptyRef
    /\ <<lastReq'.repository, lastReq'.uploadID>> \in DOMAIN patchLog[v]

\* the chunks of the session being finalized, concatenated
Patched(v) == Concat(patchLog[v][<<lastReq'.repository, lastReq'.uploadID>>])

\* C1: a finalizing PUT with digest D is answered 201 only if D is the sha256 of
\* the session's accumulated bytes followed by the PUT body; when D differs the
\* answer is a 4xx status and the repository holds the blobs it held before.
C1_FinalizeVerifiesDigest ==
    [][\A v \in Variants :
          FinalizeStep(v) =>
              LET B == Patched(v) \o lastReq'.body
                  D == lastReq'.reference
              IN /\ resp'[v].status = 201 => D = Sha256(B)
                 /\ D # Sha256(B) =>
                       /\ resp'[v].status \in 400..499
                       /\ BlobsOf(stores'[v], lastReq'.repository)
                             = BlobsOf(stores[v], lastReq'.repository)]_vars

\* C2: while a manifest B accepted by a PUT in a repository has not been deleted,
\* a GET by sha256(B) in that repository answers 200 with the bytes B and
\* Docker-Content-Digest sha256(B).
C2_GetByDigestAfterPut ==
    \A v \in Variants : \A e \in putLog[v] :
        (/\ lastReq.route = "manifests" /\ lastReq.method = "GET"
         /\ lastReq.repository = e[1]
         /\ lastReq.reference = Sha256(e[2]))
        => /\ resp[v].status = 200
           /\ resp[v].body = e[2]
           /\ resp[v].digest = Sha256(e[2])

\* C2 case: a manifest was accepted, other requests followed, and it is read by digest
C2_Witness ==
    /\ nreq >= 3
    /\ lastReq.route = "manifests" /\ lastReq.method = "GET"
    /\ <<lastReq.repository, <<2>>>> \in putLog["file"]
    /\ lastReq.reference = Sha256(<<2>>)
    /\ resp["file"].status = 200

\* C3: a GET that immediately follows a manifest PUT answered 201, with the
\* same repository and the same reference (a tag or a digest), returns the
\* PUT's body.
C3_PutThenGetSameReference ==
    [][\A v \in Variants :
          (/\ lastReq.route = "manifests" /\ lastReq.method = "PUT"
           /\ resp[v].status = 201
           /\ nreq' = nreq + 1
           /\ lastReq'.route = "manifests" /\ lastReq'.method = "GET"
           /\ lastReq'.repository = lastReq.repository
           /\ lastReq'.reference = lastReq.reference)
          => /\ resp'[v].status = 200
             /\ resp'[v].body = lastReq.body]_vars

C5_FinalizedBlobIsPatchedPlusBody ==
    [][\A v \in Variants :
          (FinalizeStep(v) /\ resp'[v].status = 201)
          => LET B == Patched(v) \o lastReq'.body
                 g == handleGetBlob(stores'[v], lastReq'.repository, lastReq'.reference).resp
             IN /\ g.status = 200
                /\ g.body = B
                /\ g.contentLength = Len(B)]_vars

\* the tags of the repository that point at digest d in store s
TagsAt(s, repository, d) ==
    {t \in TagRefs : Resolve(s, repository, t) = d}

\* C6: after deleteManifest(repo, tag) where the tag pointed at the stored
\* manifest d, getManifest(repo, tag) fails; getManifestByDigest(repo, d) fails
\* unless another tag pointed at d, in which case the record is kept and that
\* tag still resolves to the manifest.
C6_DeleteByTagKeepsSharedDigest ==
    [][\A v \in Variants :
          (/\ nreq' = nreq + 1
           /\ lastReq'.route = "manifests" /\ lastReq'.method = "DELETE"
           /\ ~HasPrefixSha256(lastReq'.reference)
           /\ GetManifest(stores[v], lastReq'.repository, lastReq'.reference).err = "")
          => LET repo   == lastReq'.repository
                 tag    == lastReq'.reference
                 before == GetManifest(stores[v], repo, tag)
                 others == TagsAt(stores[v], repo, before.digest) \ {tag}
             IN /\ GetManifest(stores'[v], repo, tag).err # ""
                /\ others = {} => GetManifestByDigest(stores'[v], repo, before.digest).err # ""
                /\ others # {} =>
                      /\ GetManifestByDigest(stores'[v], repo, before.digest).err = ""
                      /\ \A t \in others :
                            GetManifest(stores'[v], repo, t).manifest = before.manifest]_vars

\* the repository holds a manifest, a tag or a blob in store s
Pushed(s, repository) ==
    \/ BlobsOf(s, repository) # {}
    \/ \E ref \in ManifestRefs : GetManifest(s, repository, ref).err = ""

\* C10: once content has been pushed to a repository whose name has several
\* segments, GET /v2/_catalog answers 200 and lists the full name, over the
\* memory store and over the file store.
C10_CatalogListsNestedName ==
    \A v \in Variants : \A repo \in Repositories :
        (/\ lastReq.route = "catalog"
         /\ Len(repo) > 1
         /\ Pushed(stores[v], repo))
        => /\ resp[v].status = 200
           /\ repo \in resp[v].names

(***************************************************************************)
(* Properties of the gateway.                                              *)
(***************************************************************************)
\* goroutine g returns in this step from AddConfig, or from a RemoveConfig that removed a mapping
ReturnsFromMutation(g) ==
    /\ pc[g] \in {"add_Delete", "rm_Delete"}
    /\ pc'[g] = "done"

\* goroutine o is inside an operation that works on host name h
BusyOn(o, h) ==
    \/ pc[o] \in {"add_Delete", "rm_Delete"} /\ op[o].host = h
    \/ pc[o] \in {"proxy_Load", "proxy_Store"} /\ op[o].config.HostName = h

\* C7: when AddConfig for h, or a RemoveConfig(h) that removed the mapping,
\* returns while no other operation on h is in progress, the handler cache has
\* no entry for h; the cache gains an entry for h only by a GetProxyHandler
\* that found none, and that one stores and serves the handler built from the
\* mapping it was given.
C7_MutationInvalidatesHandler ==
    [][\A g \in Goroutines :
          /\ (ReturnsFromMutation(g) /\ \A o \in Goroutines \ {g} : ~BusyOn(o, op[g].host))
             => op[g].host \notin DOMAIN proxyHandlers'
          /\ (pc[g] = "proxy_Load" /\ pc'[g] # "proxy_Load"
              /\ op[g].config.HostName \notin DOMAIN proxyHandlers)
             => pc'[g] = "proxy_Store"
          /\ \A h \in Hosts :
                (h \in DOMAIN proxyHandlers'
                 /\ (h \notin DOMAIN proxyHandlers \/ proxyHandlers'[h] # proxyHandlers[h]))
                => \E o \in Goroutines :
                      /\ pc[o] = "proxy_Store" /\ pc'[o] = "done"
                      /\ op[o].config.HostName = h
                      /\ proxyHandlers'[h] = NewRegistryProxyHandler(op[o].config).handler
                      /\ op'[o].served = proxyHandlers'[h]]_vars

\* C7 case: a handler had been built and cached for docker.io, then an
\* AddConfig for docker.io returned and the entry is gone
C7_Witness ==
    /\ pc["g1"] = "done" /\ op["g1"].kind = "AddConfig" /\ op["g1"].host = "docker.io"
    /\ pc["g2"] = "done" /\ op["g2"].kind = "Request" /\ op["g2"].built
    /\ op["g2"].served.hostName = "docker.io"
    /\ op["g2"].served.target # op["g1"].config.RemoteURL
    /\ "docker.io" \notin DOMAIN proxyHandlers

\* the elements of a sequence
Range(seq) == {seq[i] : i \in 1..Len(seq)}

\* C8: a ClientHello with a server name S not seen before, answered without an
\* operator certificate, gets a certificate that lists S among its DNS names
\* and is issued by the root CA; when S has no mapping the DNS names are <<S>>.
C8_FreshNameGetsLeaf ==
    \A g \in Goroutines :
        (/\ pc[g] = "done" /\ op[g].kind = "ClientHello"
         /\ op[g].fresh
         /\ op[g].cert # OperatorCert)
        => /\ op[g].err = ""
           /\ op[g].host \in Range(op[g].cert.DNSNames)
           /\ op[g].cert.issuer = "Registry Proxy CA"
           /\ ~op[g].mapped => op[g].cert.DNSNames = <<op[g].host>>

\* C9 as stated: a request whose host has no mapping is not forwarded upstream,
\* and a request whose host has one is proxied to that mapping's remote URL.
C9_UnmappedHostServedLocally ==
    \A g \in Goroutines :
        (pc[g] = "done" /\ op[g].kind = "Request")
        => /\ ~op[g].mapped => op[g].served = NoHandler /\ op[g].status # 500
           /\ op[g].mapped /\ op[g].status = 200 => op[g].served.target = op[g].config.RemoteURL

\* C9: a request whose host has no mapping is proxied like any other, with the
\* default mapping: the one for docker.io if the store has it, else the first
\* mapping the store lists, else docker.io -> https://registry-1.docker.io.  A
\* request whose host has a mapping uses that mapping.  Either way the request
\* is served by the handler found cached under the chosen mapping's host name,
\* or, when the lookup found none, by one built from the chosen mapping.
C9_UnmappedHostUsesDefaultMapping ==
    [][\A g \in Goroutines :
          /\ (nops' = nops + 1 /\ op'[g].kind = "Request"
              /\ (op'[g] # op[g] \/ pc'[g] # pc[g]))
             => IF op'[g].host \in DOMAIN configs
                THEN /\ op'[g].mapped /\ pc'[g] = "proxy_Load"
                     /\ op'[g].config = configs[op'[g].host]
                ELSE ~op'[g].mapped /\ pc'[g] = "default_Get"
          /\ (pc[g] = "default_Get" /\ pc'[g] # "default_Get")
             => IF "docker.io" \in DOMAIN configs
                THEN pc'[g] = "proxy_Load" /\ op'[g].config = configs["docker.io"]
                ELSE pc'[g] = "default_List"
          /\ (pc[g] = "default_List" /\ pc'[g] # "default_List")
             => IF DOMAIN configs = {}
                THEN pc'[g] = "proxy_Load" /\ op'[g].config = LiteralDefault
                ELSE pc'[g] = "default_First" /\ op'[g].first \in DOMAIN configs
          /\ (pc[g] = "default_First" /\ pc'[g] # "default_First")
             => /\ pc'[g] = "proxy_Load"
                /\ op'[g].config = IF op[g].first \in DOMAIN configs
                                   THEN configs[op[g].first] ELSE LiteralDefault
          /\ (pc[g] = "proxy_Load" /\ pc'[g] = "done")
             => /\ op[g].config.HostName \in DOMAIN proxyHandlers
                /\ op'[g].status = 200
                /\ op'[g].served = proxyHandlers[op[g].config.HostName]
                /\ op'[g].served.hostName = op[g].config.HostName
          /\ (pc[g] = "proxy_Store" /\ pc'[g] = "done")
             => \/ /\ op'[g].status = 200
                   /\ op'[g].served = NewRegistryProxyHandler(op[g].config).handler
                   /\ op'[g].served.hostName = op[g].config.HostName
                \/ /\ op'[g].status = 500
                   /\ NewRegistryProxyHandler(op[g].config).err]_vars

\* C9 case: with the docker.io mapping removed, a request for a host without
\* mapping was forwarded by the handler of the first mapping the store listed
C9_Witness ==
    \E g \in Goroutines :
        /\ pc[g] = "done" /\ op[g].kind = "Request"
        /\ ~op[g].mapped
        /\ op[g].host = "mirror.local"
        /\ op[g].first # ""
        /\ op[g].status = 200
        /\ op[g].served.target = "https://gcr.io"

(***************************************************************************)
(* Properties of the config store, of startup and of the admin API.        *)
(***************************************************************************)
\* the step is main starting the process
Starts == ~running /\ running'

\* C11: startup seeding leaves every mapping the store already holds as it
\* was loaded: after main has started, each hostname of the config file is
\* still mapped to the record the file gave it.
C11_SeedingKeepsLoadedMappings ==
    [][Starts =>
         LET loaded == CreateConfigStore(storeKind, configFile).configs IN
         \A h \in DOMAIN loaded : h \in DOMAIN configs' /\ configs'[h] = loaded[h]]_vars

\* the credentials a mapping can carry in the model
CredentialValues == {"", "bot", "s3cret"}

\* the request served last is the listing of the admin API
ListedLast == adminReq.method = "GET" /\ adminReq.path = ListPath(apiPrefix)

\* the step is the admin server answering a request of the method with the status
Answers(method, status) ==
    /\ nadmin' = nadmin + 1
    /\ running'
    /\ adminReq'.method = method
    /\ adminResp'.status = status

\* C12: in every state of the store, List returns one record per stored
\* mapping, each with empty username and password, and the result does not
\* change when the credentials of any stored mapping are replaced; Get of a
\* stored hostname returns the stored record, which after an add is the
\* record that was added, credentials included.
C12_ListStripsCredentialsGetKeepsThem ==
    /\ [](LET listed == MemoryConfigStore_List(configs) IN
          /\ \A c \in listed : c.Username = "" /\ c.Password = ""
          /\ {c.HostName : c \in listed} = DOMAIN configs
          /\ Cardinality(listed) = Cardinality(DOMAIN configs)
          /\ \A h \in DOMAIN configs :
                \A u \in CredentialValues, p \in CredentialValues :
                   MemoryConfigStore_List([configs EXCEPT ![h] = Credentials(@, u, p)])
                       = listed
          /\ \A h \in DOMAIN configs :
                MemoryConfigStore_Get(configs, h) = [config |-> configs[h], ok |-> TRUE])
    /\ [][/\ (Answers("GET", 200) /\ adminReq'.path = ListPath(apiPrefix))
              => /\ adminResp'.list = MemoryConfigStore_List(configs)
                 /\ \A c \in adminResp'.list : c.Username = "" /\ c.Password = ""
          /\ Answers("POST", 201)
              => MemoryConfigStore_Get(configs', adminReq'.body.HostName)
                    = [config |-> adminReq'.body, ok |-> TRUE]]_vars

\* the store holds a mapping with credentials and its listing has been served
C12_Witness ==
    /\ ListedLast
    /\ adminResp.status = 200
    /\ \E h \in DOMAIN configs :
          /\ configs[h].Username = "bot" /\ configs[h].Password = "s3cret"
          /\ \E c \in adminResp.list : c.HostName = h /\ c.Password = ""

\* the step is the admin server answering a per-host request
AnswersHost(method, status, host) ==
    /\ Answers(method, status)
    /\ adminReq'.path = HostPath(apiPrefix, host)

\* C13: the body of a per-host GET of the admin API answered 200 carries
\* neither the username nor the password of the stored mapping.
C13_GetByHostIsSanitized ==
    [][\A host \in AdminHosts :
          AnswersHost("GET", 200, host)
              => adminResp'.config.Username = "" /\ adminResp'.config.Password = ""]_vars

\* the manager as the step leaves it
TheManagerAfter == ManagerOf(storeKind', configs', proxyHandlers', configFile')

\* the answer a per-host request would get from the manager m
WouldAnswer(method, m, host) ==
    LET req == AdminRequest(method, HostPath(apiPrefix, host), FALSE, ZeroConfig) IN
    IF method = "GET" THEN adminGet(apiPrefix, m, req).resp
    ELSE adminDelete(apiPrefix, m, req, "ok").resp

\* the mappings of the hostnames other than h
Others(cs, h) == [g \in (DOMAIN cs) \ {h} |-> cs[g]]

\* C14: for every host h, (a) after an add for h answered 201 the listing
\* shows h and the per-host GET for h returns the added mapping; (b) after a
\* per-host DELETE for h answered 204 the listing does not show h and both
\* the per-host GET and a second DELETE for h are answered 404; (c) a request
\* addressed to h leaves the mappings of all other hostnames as they were,
\* and a per-host GET for h answers with no mapping but that of h.
C14_AdminLifecycle ==
    [][\A h \in AdminHosts :
          /\ (Answers("POST", 201) /\ adminReq'.body.HostName = h)
                => /\ \E c \in adminList(TheManagerAfter).resp.list : c.HostName = h
                   /\ WouldAnswer("GET", TheManagerAfter, h).status = 200
                   /\ WouldAnswer("GET", TheManagerAfter, h).config = JsonConfig(adminReq'.body)
          /\ AnswersHost("DELETE", 204, h)
                => /\ \A c \in adminList(TheManagerAfter).resp.list : c.HostName # h
                   /\ WouldAnswer("GET", TheManagerAfter, h).status = 404
                   /\ WouldAnswer("DELETE", TheManagerAfter, h).status = 404
          /\ ((Answers("POST", adminResp'.status) /\ adminReq'.decodable
                   /\ adminReq'.body.HostName = h)
               \/ \E method \in {"GET", "PUT", "DELETE"} :
                     AnswersHost(method, adminResp'.status, h))
                => /\ Others(configs', h) = Others(configs, h)
                   /\ adminResp'.config \in {ZeroConfig} \cup
                          {JsonConfig(configs[g]) : g \in (DOMAIN configs) \cap {h}}]_vars

\* the URL parses and has a scheme
IsAbsoluteURL(remoteURL) == ~UrlParseFails(remoteURL) /\ remoteURL # ""

WellFormed(c) == c.HostName # "" /\ IsAbsoluteURL(c.RemoteURL)

\* the mapping an add request of the admin API asks the store to hold
Asked(req) ==
    IF req.method = "PUT"
    THEN [req.body EXCEPT !.HostName = PathHostName(apiPrefix, req.path)]
    ELSE req.body

\* C15: every mapping the store holds has a non-empty hostName and a
\* remoteURL that parses to an absolute URL, and an add of the admin API
\* (POST or PUT) for a mapping that has not is answered 400 and leaves the
\* store as it was.
C15_StoredMappingsWellFormed ==
    /\ [](\A h \in DOMAIN configs : WellFormed(configs[h]))
    /\ [][\A method \in {"POST", "PUT"} :
              (Answers(method, adminResp'.status) /\ adminReq'.decodable
                  /\ ~WellFormed(Asked(adminReq')))
                  => adminResp'.status = 400 /\ configs' = configs]_vars

\* the config file that holds exactly the mappings cs
Saved(cs) == FileOf(TRUE, TRUE, [h \in DOMAIN cs |-> JsonConfig(cs[h])])

\* the step is an add or a remove of the admin API reaching the file store
FileAdd ==
    /\ storeKind = "file"
    /\ adminReq'.decodable
    /\ \/ Answers("POST", adminResp'.status)
       \/ Answers("PUT", adminResp'.status) /\ apiPrefix = <<"", "api", "v1">>

FileRemove(host) ==
    /\ storeKind = "file"
    /\ AnswersHost("DELETE", adminResp'.status, host)
    /\ PathHostName(apiPrefix, adminReq'.path) # ""
    /\ PathHostName(apiPrefix, adminReq'.path) \in DOMAIN configs

\* C16: over the file-backed store an add or a remove is answered with
\* success only when the config file holds the mappings of the store as the
\* operation left them; otherwise the write has failed, the operation is
\* answered with an error, and the store keeps the change in memory.
C16_FileStoreSuccessMeansPersisted ==
    [][/\ FileAdd
           => \/ adminResp'.status \in {200, 201} /\ configFile' = Saved(configs')
              \/ /\ adminResp'.status \in {400, 500}
                 /\ configs' = MemoryConfigStore_Add(configs, Asked(adminReq'))
       /\ \A host \in AdminHosts :
            FileRemove(host)
             => \/ adminResp'.status = 204 /\ configFile' = Saved(configs')
                \/ /\ adminResp'.status = 500
                   /\ configs' = MapDel(configs, PathHostName(apiPrefix, adminReq'.path))]_vars

\* an add was answered with an error, the store holds the added mapping and
\* the config file does not
C16_Witness ==
    /\ running /\ storeKind = "file"
    /\ adminReq.method = "POST" /\ adminReq.decodable
    /\ adminResp.status \in {400, 500}
    /\ adminReq.body.HostName \in DOMAIN configs
    /\ configs[adminReq.body.HostName] = adminReq.body
    /\ configFile.json
    /\ adminReq.body.HostName \notin DOMAIN configFile.configs

(***************************************************************************)
(* Properties of the redirect-following transport.                         *)
(***************************************************************************)
\* the step is RoundTrip returning to its caller
Returns == rt.phase = "loop" /\ rt'.phase = "returned"

\* the step is an iteration that follows the redirect it was answered with
Follows == rt.phase = "loop" /\ rt'.phase = "loop" /\ rt'.redirects = rt.redirects + 1

\* the response is a redirect with a Location that can be followed
UsableRedirect(response) == isRedirect(response.status) /\ ~Location(response).err

\* C17: when RoundTrip returns because every one of its maxRedirects
\* requests was answered with a redirect it followed, it returns the last
\* upstream response with a nil error: same status, same headers, and a body
\* that has not been closed.
C17_ExhaustedReturnsLastResponseUnchanged ==
    [][(Returns /\ rt.redirects >= maxRedirects)
          => /\ ~rt'.returned.isNil
             /\ ~rt'.returned.err
             /\ rt'.returned.resp.status = rt.upstream.status
             /\ rt'.returned.resp.location = rt.upstream.location
             /\ ~rt'.returned.resp.closed]_vars

\* C18: the request RoundTrip builds when it follows a redirect has the
\* method and all headers of the original request, no body, and the URL of
\* the Location header resolved against the URL of the request that was
\* redirected; it is the request the next iteration issues.
C18_RedirectRequestReplaysOriginal ==
    [][/\ Follows
           => /\ rt'.upstream.request = rt.req
              /\ rt'.req.method = rt.origReq.method
              /\ rt'.req.header = rt.origReq.header
              /\ ~rt'.req.body
              /\ rt'.req.url = ResolveReference(rt.req.url, rt'.upstream.location)
       /\ (rt.phase = "loop" /\ rt'.issued # rt.issued) => rt'.issued = rt.req]_vars

\* a POST with an Authorization header was redirected to another host and
\* the request to that host has been issued
C18_Witness ==
    /\ rt.received >= 2
    /\ rt.origReq.method = "POST"
    /\ rt.origReq.url.host # "cdn.example.com"
    /\ rt.issued.url.host = "cdn.example.com"
    /\ rt.issued.method = "POST"
    /\ "Authorization" \in DOMAIN rt.issued.header
    /\ ~rt.issued.body

\* C19: a response that is not a redirect is returned as the upstream gave
\* it, after any chain of up to maxRedirects redirects, and a redirect that
\* can be followed is returned only when the upstream has answered with more
\* than maxRedirects redirects.
C19_RedirectReturnedOnlyBeyondLimit ==
    [][(Returns /\ ~rt'.returned.isNil)
          => /\ ~isRedirect(rt'.upstream.status) => rt'.returned.resp = rt'.upstream
             /\ UsableRedirect(rt'.returned.resp) => rt'.received > maxRedirects]_vars

(***************************************************************************)
(* Properties of the router.                                               *)
(***************************************************************************)
Keywords == {"manifests", "tags", "blobs"}

\* no segment of the repository name is a keyword
NoKeyword(name) == \A i \in 1..Len(name) : name[i] \notin Keywords

\* C20: a request for a V2 route of a repository whose name has one or more
\* segments, none of them a keyword, reaches the handler of the route with
\* the context key repository equal to the whole name and with reference,
\* digest or uuid equal to the segment after the keyword (blobs/uploads/ is
\* the route of POST).
C20_NestedNamesDispatch ==
    (routed.route # "" /\ NoKeyword(routed.name))
        => /\ routed.dispatch.repository = routed.name
           /\ routed.route = "manifests"
                => /\ routed.dispatch.handler = "handleManifests"
                   /\ routed.dispatch.reference = routed.argument
           /\ routed.route = "tags" => routed.dispatch.handler = "handleListTags"
           /\ routed.route = "blobs"
                => /\ routed.dispatch.handler = "handleBlobs"
                   /\ routed.dispatch.digest = routed.argument
           /\ (routed.route = "uploads" /\ routed.method = "POST")
                => routed.dispatch.handler = "handleInitiateUpload"
           /\ routed.route = "upload"
                => /\ routed.dispatch.handler = "handleUpload"
                   /\ routed.dispatch.uuid = routed.argument

\* the handler registered for a route
HandlerOf(route) ==
    CASE route = "manifests" -> "handleManifests"
      [] route = "tags" -> "handleListTags"
      [] route = "blobs" -> "handleBlobs"
      [] OTHER -> ""

\* C21: a path with one more segment after a complete route is not served by
\* the handler of that route, and a path of the shape of one route (of a
\* repository whose name holds no keyword) is served by no other route's
\* handler.
C21_RouteShapeIsExact ==
    /\ routed.route = "extra" => routed.dispatch.handler # HandlerOf(routed.argument)
    /\ (routed.route \in {"manifests", "tags", "blobs"} /\ NoKeyword(routed.name))
          => routed.dispatch.handler \in {HandlerOf(routed.route), ""}

VersionCheckPaths == {<<"", "v2", "">>}

\* C22: through the router GET /v2/ is answered 200, another method on /v2/
\* is answered 404, and so is the unrecognised path /v2/non-existent.
C22_VersionCheckAndNotFound ==
    /\ (routed.path \in VersionCheckPaths /\ routed.method = "GET")
          => routed.dispatch.status = 200
    /\ (routed.path \in VersionCheckPaths /\ routed.method # "GET")
          => routed.dispatch.status = 404
    /\ routed.path = <<"", "v2", "non-existent">>
          => (routed.dispatch.handler = "" /\ routed.dispatch.status = 404)

(***************************************************************************)
(* Properties of the V2 handlers: methods, unknown resources, repositories.*)
(***************************************************************************)
\* the methods the route table lists for each resource
SupportedMethods(route) ==
    CASE route = "catalog" -> {"GET"}
      [] route = "tags" -> {"GET"}
      [] route = "manifests" -> {"HEAD", "GET", "PUT", "DELETE"}
      [] route = "blobs" -> {"HEAD", "GET", "DELETE"}
      [] route = "uploads" -> {"POST"}
      [] route = "upload" -> {"PATCH", "PUT", "HEAD", "DELETE"}
      [] OTHER -> {}

\* the step is the serving of one request
Served == nreq' = nreq + 1

\* C23: a request for a recognized V2 resource with a method the resource
\* does not support is answered 405 and leaves the content store unchanged.
C23_UnsupportedMethodIs405 ==
    [][(Served /\ lastReq'.method \notin SupportedMethods(lastReq'.route))
          => \A v \in Variants : resp'[v].status = 405 /\ stores'[v] = stores[v]]_vars

\* store s holds an upload session of the repository under uploadID
SessionOpen(s, repository, uploadID) ==
    IF s.kind = "memory"
    THEN repository \in DOMAIN s.uploads /\ uploadID \in DOMAIN s.uploads[repository]
    ELSE <<repository, uploadID>> \in DOMAIN s.uploads

\* the step serves a request of the method for blobs/uploads/<uuid>
UploadStep(method) ==
    Served /\ lastReq'.route = "upload" /\ lastReq'.method = method

\* C24: DELETE on the URL of an open upload session is answered 204, removes
\* the session with its bytes and creates no blob; a PATCH or PUT addressed
\* to an upload ID with no open session does not succeed.
C24_DeleteAbortsUpload ==
    [][\A v \in Variants :
          /\ (UploadStep("DELETE")
                 /\ SessionOpen(stores[v], lastReq'.repository, lastReq'.uploadID))
               => /\ resp'[v].status = 204
                  /\ ~SessionOpen(stores'[v], lastReq'.repository, lastReq'.uploadID)
                  /\ BlobsOf(stores'[v], lastReq'.repository)
                        = BlobsOf(stores[v], lastReq'.repository)
          /\ ((UploadStep("PATCH") \/ UploadStep("PUT"))
                 /\ ~SessionOpen(stores[v], lastReq'.repository, lastReq'.uploadID))
               => resp'[v].status \notin 200..299]_vars

\* the request addresses a manifest, tag, blob or upload session that store
\* s does not hold (a finalizing PUT carries its digest parameter)
AddressesUnknown(s, req) ==
    \/ /\ req.route = "manifests" /\ req.method \in {"HEAD", "GET", "DELETE"}
       /\ GetManifest(s, req.repository, req.reference).err # ""
    \/ /\ req.route = "blobs" /\ req.method \in {"HEAD", "GET", "DELETE"}
       /\ req.reference \notin BlobsOf(s, req.repository)
    \/ /\ req.route = "upload"
       /\ req.method = "PATCH" \/ (req.method = "PUT" /\ req.reference # EmptyRef)
       /\ ~SessionOpen(s, req.repository, req.uploadID)

\* C25: a V2 operation addressed to an unknown manifest, tag, blob or upload
\* session is answered 404 and leaves the store as it was.
C25_UnknownResourceIs404 ==
    [][\A v \in Variants :
          (Served /\ AddressesUnknown(stores[v], lastReq'))
            => resp'[v].status = 404 /\ stores'[v] = stores[v]]_vars

\* store s holds a tag, a manifest or a blob of the repository
HasContent(s, repository) ==
    IF s.kind = "memory"
    THEN /\ repository \in DOMAIN s.repositories
         /\ \/ DOMAIN s.repositories[repository].Tags # {}
            \/ DOMAIN s.repositories[repository].Manifests # {}
            \/ DOMAIN s.repositories[repository].Blobs # {}
    ELSE \E k \in DOMAIN s.tags \cup DOMAIN s.manifests \cup DOMAIN s.blobs :
            k[1] = repository

\* C26: in every reachable state of the content store, listRepositories
\* returns a repository exactly when one of its tags, manifests or blobs
\* collections is not empty.
C26_RepositoryExistsIffContent ==
    \A v \in Variants : \A repo \in Repositories :
        repo \in ListRepositories(stores[v]).names <=> HasContent(stores[v], repo)

(***************************************************************************)
(* Properties of the shutdown sequence.                                    *)
(***************************************************************************)
\* C27: no handler is cut off by the shutdown sequence: when the process
\* has exited, every handler that was in flight when the signal arrived, and
\* every handler started since, has run to completion.
C27_InFlightHandlersComplete ==
    /\ \A l \in Listeners, h \in HandlerIds : requests[l][h] # "cutoff"
    /\ mainPc = "exited"
          => \A l \in Listeners, h \in HandlerIds :
                 /\ requests[l][h] # "running"
                 /\ <<l, h>> \in atTrigger => requests[l][h] = "completed"

\* the process has exited after a signal that arrived with a handler in
\* flight on each listener
C27_Witness ==
    /\ mainPc = "exited"
    /\ \A l \in Listeners : \E h \in HandlerIds : <<l, h>> \in atTrigger

(***************************************************************************)
(* Properties of the certificate authority.                                *)
(***************************************************************************)
\* C28: during one process lifetime the CA of the manager is the one loaded
\* or generated at startup, and every leaf issued is signed by it, whatever
\* happens to the CA files.
C28_CAStableForProcessLifetime ==
    /\ ca.mem = StartupCA
    /\ ca.signedBy \subseteq {StartupCA}

(***************************************************************************)
(* Properties of the handler cache under concurrent operations.            *)
(***************************************************************************)
\* every operation has returned
Quiescent == \A g \in Goroutines : Resting(g)

\* the handler GetProxyHandler builds for h from what the store holds now: from
\* the mapping of h, or from the built-in default when docker.io has none
CurrentHandler(h) ==
    IF h \in DOMAIN configs THEN NewRegistryProxyHandler(configs[h]).handler
    ELSE IF h = LiteralDefault.HostName THEN NewRegistryProxyHandler(LiteralDefault).handler
    ELSE NoHandler

\* C29: once all operations have returned, a handler cached for h was built
\* from the mapping currently stored for h, under any interleaving of
\* GetProxyHandler with AddConfig and RemoveConfig.
C29_CachedHandlerIsCurrent ==
    Quiescent => \A h \in DOMAIN proxyHandlers : proxyHandlers[h] = CurrentHandler(h)

(***************************************************************************)
(* Properties of the store lock.                                           *)
(***************************************************************************)
\* C30: no content-store call blocks forever: under any interleaving of the
\* read calls and the write calls on one store, every call that has been
\* entered eventually returns, with the lock released.
C30_EveryStoreCallReturns ==
    \A g \in StoreCallers : (calls[g] # NoCall) ~> (calls[g] = NoCall)
\* C31: under concurrent Add and Remove calls on the file-backed config
\* store, once every call has returned without error the file holds exactly
\* the mappings of the in-memory map.
C31_FileMatchesMapWhenCallsReturned ==
    ( /\ \A g \in FileCallers : fs.calls[g].at = "idle"
      /\ fs.n > 0
      /\ ~fs.failed )
    => fs.file = Persisted(fs.configs)

\* C32: when several handshakes trigger first-use issuance for one server
\* name, every GetOrCreateCert call returns without error a certificate
\* whose private key matches its public key; once all calls have returned
\* the cache holds a certificate, and a call that hits the cache returns it.
C32_ConcurrentIssuanceReturnsUsableCert ==
    /\ \A g \in MintCallers :
          mint.calls[g].at = "returned"
          => /\ mint.calls[g].err = ""
             /\ mint.calls[g].cert # NoKeyPair
             /\ mint.calls[g].cert.pub = mint.calls[g].cert.priv
    /\ ( /\ \A g \in MintCallers : mint.calls[g].at \in {"idle", "returned"}
         /\ mint.n > 0 )
       => mint.cache # NoKeyPair

\* C33: the leaf certificate presented for a server name that has a mapping
\* carries, as DNS names, the server name and the aliases configured for the
\* mapping when the handshake looked it up, also after the aliases have been
\* changed by an add.
C33_LeafCoversCurrentAliases ==
    \A g \in Goroutines :
        ( /\ pc[g] = "done"
          /\ op[g].kind = "ClientHello"
          /\ op[g].mapped
          /\ op[g].err = "" )
        => Range(op[g].cert.DNSNames) = {op[g].host} \cup Range(GetDNSNames(op[g].config))

\* C34: whenever an add or a remove changes what Get(h) returns, the proxy
\* handler cached for h is invalidated, also when the mutation fails to
\* write the file and returns an error.
C34_MappingChangeInvalidatesHandler ==
    [][\A h \in Hosts \cup AdminHosts :
          ( /\ running /\ running'
            /\ MemoryConfigStore_Get(configs', h) # MemoryConfigStore_Get(configs, h) )
          => h \notin DOMAIN proxyHandlers']_vars

\* the status code and the body of a response, the listed names as a set
StatusAndBody(r) ==
    [status |-> r.status, body |-> r.body, null |-> r.null, names |-> r.names]

\* C35: for every sequence of V2 requests the handler over the memory store
\* and the handler over the file store answer with the same status code and
\* the same body, up to the order of listed names.
C35_VariantsAnswerAlike ==
    StatusAndBody(resp["memory"]) = StatusAndBody(resp["file"])

\* C36: finalized is terminal for an upload session.  A finalizing PUT that
\* succeeds leaves no session under its ID; until a POST hands that ID out
\* again, a PATCH or PUT addressed to it fails and leaves the blobs and
\* everything else in the store as they were.
C36_FinalizedIsTerminal ==
    [][(UploadStep("PATCH") \/ UploadStep("PUT"))
          => \A v \in Variants :
                LET key == <<lastReq'.repository, lastReq'.uploadID>> IN
                /\ (lastReq'.method = "PUT" /\ resp'[v].status = 201)
                      => ~SessionOpen(stores'[v], key[1], key[2])
                /\ key \in finalized[v]
                      => /\ ~SessionOpen(stores[v], key[1], key[2])
                         /\ resp'[v].status >= 400
                         /\ stores'[v] = stores[v]]_vars

\* a PUT addressed to a finalized session has just been refused by both stores
C36_Witness ==
    /\ lastReq.route = "upload" /\ lastReq.method = "PUT"
    /\ lastReq.reference # EmptyRef
    /\ \A v \in Variants :
          /\ <<lastReq.repository, lastReq.uploadID>> \in finalized[v]
          /\ resp[v].status >= 400
          /\ BlobsOf(stores[v], lastReq.repository) # {}

\* C37: the proxy never replaces credentials the client supplied.  When the
\* inbound request carries an Authorization header of any scheme the
\* forwarded request carries the same header; the configured credentials
\* are sent only when the client sent none and the mapping has both a
\* username and a password.
C37_ClientCredentialsAreKept ==
    fwd.called =>
        /\ fwd.inbound.authorization # NoAuthorization
              => fwd.outbound.authorization = fwd.inbound.authorization
        /\ fwd.inbound.authorization = NoAuthorization
              => fwd.outbound.authorization =
                    IF fwd.config.Username # "" /\ fwd.config.Password # ""
                    THEN BasicValue(fwd.config.Username, fwd.config.Password)
                    ELSE NoAuthorization

\* C38: certificates issued under the root CA carry distinct serial numbers:
\* no two leaf certificates minted for different server names share issuer
\* and serial number.
C38_SerialsAreDistinct ==
    \A h1, h2 \in DOMAIN certCache :
        h1 # h2 => ~ ( /\ certCache[h1].issuer = certCache[h2].issuer
                       /\ certCache[h1].SerialNumber = certCache[h2].SerialNumber )

\* the media type the inference table gives for stored bytes: a document with
\* schemaVersion 2 and a non-empty manifests array is a manifest list
TableMediaType(data) ==
    LET d == Parse(data) IN
    IF d.schemaVersion = 2 /\ d.manifests = "array"
    THEN IF d.mediaType \in {MediaTypeManifestList, MediaTypeOCIManifestIndex}
         THEN d.mediaType
         ELSE MediaTypeManifestList
    ELSE IF d.mediaType # "" THEN d.mediaType
    ELSE MediaTypeManifestV2

\* the bytes a GET or HEAD of the last request found stored
StoredBytes(v) == GetManifest(stores[v], lastReq.repository, lastReq.reference).manifest

ManifestRead(v) ==
    /\ lastReq.route = "manifests"
    /\ lastReq.method \in {"GET", "HEAD"}
    /\ ~HasPrefixSha256(lastReq.reference)
    /\ resp[v].status = 200

\* C39: the Content-Type of a GET or HEAD that finds a manifest is the one the
\* inference table gives for the stored bytes, whatever bytes are stored.
C39_ContentTypeFollowsTable ==
    \A v \in Variants :
        ManifestRead(v) => resp[v].contentType = TableMediaType(StoredBytes(v))


\* the step serves a POST that initiates an upload
InitiateStep ==
    Served /\ lastReq'.route = "uploads" /\ lastReq'.method = "POST"

\* C40: the upload ID a POST returns differs from the ID of every session in
\* progress, and the sessions in progress keep the bytes they have accumulated.
C40_InitiateLeavesSessionsAlone ==
    [][InitiateStep
          => \A v \in Variants :
                resp'[v].status = 202
                   => \A repo \in Repositories, id \in UploadIDs :
                         SessionOpen(stores[v], repo, id)
                            => /\ resp'[v].uploadID # id
                               /\ SessionOpen(stores'[v], repo, id)
                               /\ UploadBytes(stores'[v], repo, id)
                                     = UploadBytes(stores[v], repo, id)]_vars

====
